---- MODULE Spec2Model ----
(***************************************************************************)
(* COMPAS Navigator: the per-session stage-progression state machine.      *)
(*                                                                         *)
(* Three implementations of the chat turn live in the repository:          *)
(*   "server"   the express server (keyword policy, updateSessionStage)    *)
(*   "simple"   the serverless simple-api handler (keyword policy)         *)
(*   "assisted" the serverless handler with analyzeAndProgressStage        *)
(* A chat turn is an async handler; each action below is one synchronous   *)
(* stretch of it, from one await to the next.  Several turns of the same   *)
(* session may be in flight and their stretches interleave.  A handler     *)
(* that awaits its own progression policy is resumed before the event loop *)
(* takes its next task; only calls that settled in the same turn of the    *)
(* loop run in between.                                                    *)
(*                                                                         *)
(* Text is modelled as a sequence of one-character strings so that         *)
(* toLowerCase and includes are computed.  Field values of stageData are   *)
(* their JSON text ("" , "[]", "null", "X"); completed is a boolean.       *)
(*                                                                         *)
(* One session is followed from its creation.  To keep the exploration     *)
(* finite, a run is of one of three kinds (variable mode): a whole         *)
(* lifecycle of requests processed one after another, a few requests whose *)
(* handlers overlap, or a few requests between which the clock advances.   *)
(* Two further specifications look at one part each: PolicySpec walks a    *)
(* keyword session to every stage and tries a wider set of assistant texts *)
(* against updateSessionStage; ReportSpec mixes chat turns with uploads,   *)
(* get-report requests and exports while the clock (in minutes) advances.  *)
(* RouteSpec sends requests by method and path, also for an identifier     *)
(* that is not in the session store, through the route tests of each       *)
(* handler; PurgeSpec follows the files on disk of the express server      *)
(* under its hourly purge task; ClientSpec adds the web client, which      *)
(* sends one message at a time and reads the stage from each answer.       *)
(***************************************************************************)
EXTENDS Integers, Sequences, FiniteSets, TLC

\* ---------------------------------------------------------------- bounds
\* chat requests of one session when they are processed one after another
MaxTurns == 6
\* chat requests of one session when they may overlap
OverlapTurns == 2
\* overlapping chat requests in flight at the same moment
MaxInFlight == 2
\* chat requests of one session when the clock is seen to advance
TimedTurns == 2
\* clock readings after the first
MaxClock == 1
\* chat requests of one session whose completion call fails
MaxFailures == 1
\* files uploaded to one session
MaxUploads == 1
\* export requests whose document is being rendered at one time
MaxRendering == 1
\* chat requests of one session when reports are asked for in between
ReportTurns == 1
\* chat requests of one session when exports are asked for in between
ExportTurns == 1
\* chat requests and sessions created in a run of RouteSpec
RouteTurns == 2
MaxCreated == 1
\* hours of clock readings told apart, files stored by storeFileSecurely
\* and hours within which a pass of purgeOldFiles is over, in a run of
\* PurgeSpec
PurgeHours == 26
MaxStored == 1
PassHours == 2
\* messages sent by the web client in a run of ClientSpec
ClientTurns == 2

\* ---------------------------------------------------------------- stages
CONTEXT_DISCOVERY == "context_discovery"
OBJECTIVE_DEFINITION == "objective_definition"
METHOD_IDEATION == "method_ideation"
METHOD_SELECTION == "method_selection"
IMPLEMENTATION_PLAN == "implementation_plan"
COMPLETE == "complete"

COMPAS_STAGES ==
  {CONTEXT_DISCOVERY, OBJECTIVE_DEFINITION, METHOD_IDEATION,
   METHOD_SELECTION, IMPLEMENTATION_PLAN, COMPLETE}

\* the fixed order of the stages
StageOrder ==
  <<CONTEXT_DISCOVERY, OBJECTIVE_DEFINITION, METHOD_IDEATION,
    METHOD_SELECTION, IMPLEMENTATION_PLAN, COMPLETE>>

StageIndex(s) == CHOOSE i \in 1..Len(StageOrder) : StageOrder[i] = s

\* JavaScript null (nextStage of the terminal stage)
Null == "null"

\* variant: the terminal stage's nextStage names the first stage
NextStage_Wraps(s) ==
  CASE s = CONTEXT_DISCOVERY -> OBJECTIVE_DEFINITION
    [] s = OBJECTIVE_DEFINITION -> METHOD_IDEATION
    [] s = METHOD_IDEATION -> METHOD_SELECTION
    [] s = METHOD_SELECTION -> IMPLEMENTATION_PLAN
    [] s = IMPLEMENTATION_PLAN -> COMPLETE
    [] s = COMPLETE -> CONTEXT_DISCOVERY

\* STAGE_CRITERIA[stage].nextStage
NextStage(s) ==
  CASE s = CONTEXT_DISCOVERY -> OBJECTIVE_DEFINITION
    [] s = OBJECTIVE_DEFINITION -> METHOD_IDEATION
    [] s = METHOD_IDEATION -> METHOD_SELECTION
    [] s = METHOD_SELECTION -> IMPLEMENTATION_PLAN
    [] s = IMPLEMENTATION_PLAN -> COMPLETE
    [] s = COMPLETE -> Null

\* ------------------------------------------------------------------ text
UpperChars == <<"A", "B", "C", "D", "E", "F", "G", "H", "I", "J", "K", "L", "M", "N", "O", "P", "Q", "R", "S", "T", "U", "V", "W", "X", "Y", "Z">>
LowerChars == <<"a", "b", "c", "d", "e", "f", "g", "h", "i", "j", "k", "l", "m", "n", "o", "p", "q", "r", "s", "t", "u", "v", "w", "x", "y", "z">>

ToLowerChar(c) ==
  IF \E i \in 1..Len(UpperChars) : UpperChars[i] = c
  THEN LowerChars[CHOOSE i \in 1..Len(UpperChars) : UpperChars[i] = c]
  ELSE c

\* variant: the response is compared as it is, without toLowerCase
ToLowerCase_AsIs(str) == str

\* String.prototype.toLowerCase
ToLowerCase(str) == [i \in 1..Len(str) |-> ToLowerChar(str[i])]

\* String.prototype.includes
Includes(str, sub) ==
  \E i \in 0..(Len(str) - Len(sub)) :
    \A j \in 1..Len(sub) : str[i + j] = sub[j]

\* the trigger phrases of updateSessionStage
KwYesThatsRight == <<"y", "e", "s", ",", " ", "t", "h", "a", "t", "'", "s", " ", "r", "i", "g", "h", "t">>
KwCorrect == <<"c", "o", "r", "r", "e", "c", "t">>
KwRootCause == <<"r", "o", "o", "t", " ", "c", "a", "u", "s", "e">>
KwProblemStatement == <<"p", "r", "o", "b", "l", "e", "m", " ", "s", "t", "a", "t", "e", "m", "e", "n", "t">>
KwMethod == <<"m", "e", "t", "h", "o", "d">>
KwOne == <<"1", ".">>
KwTwo == <<"2", ".">>
KwThree == <<"3", ".">>
KwImplementationPlan == <<"i", "m", "p", "l", "e", "m", "e", "n", "t", "a", "t", "i", "o", "n", " ", "p", "l", "a", "n">>
KwPerformanceMeasures == <<"p", "e", "r", "f", "o", "r", "m", "a", "n", "c", "e", " ", "m", "e", "a", "s", "u", "r", "e", "s">>
KwLearningQuestions == <<"l", "e", "a", "r", "n", "i", "n", "g", " ", "q", "u", "e", "s", "t", "i", "o", "n", "s">>

\* assistant texts the completion collaborator may return
\* "CORRECT: Root Cause, Method 1. implementation plan, performance measures, learning questions"
RespAllTriggers == <<"C", "O", "R", "R", "E", "C", "T", ":", " ", "R", "o", "o", "t", " ", "C", "a", "u", "s", "e", ",", " ", "M", "e", "t", "h", "o", "d", " ", "1", ".", " ", "i", "m", "p", "l", "e", "m", "e", "n", "t", "a", "t", "i", "o", "n", " ", "p", "l", "a", "n", ",", " ", "p", "e", "r", "f", "o", "r", "m", "a", "n", "c", "e", " ", "m", "e", "a", "s", "u", "r", "e", "s", ",", " ", "l", "e", "a", "r", "n", "i", "n", "g", " ", "q", "u", "e", "s", "t", "i", "o", "n", "s">>
\* "Let's explore options."
RespExplore == <<"L", "e", "t", "'", "s", " ", "e", "x", "p", "l", "o", "r", "e", " ", "o", "p", "t", "i", "o", "n", "s", ".">>
\* "Performance Measures"
RespMeasuresOnly == <<"P", "e", "r", "f", "o", "r", "m", "a", "n", "c", "e", " ", "M", "e", "a", "s", "u", "r", "e", "s">>
\* message.content = null (a completion without text)
NullContent == <<"<null>">>

\* the texts tried against each implementation (the assisted policy never
\* looks into the text)
ResponsesOf(i) ==
  IF i = "assisted" THEN {RespExplore}
  ELSE {RespAllTriggers, RespMeasuresOnly, NullContent}

\* further assistant texts, tried against the keyword policy alone
\* "Yes, that's right, this matches my situation."
TextYesThatsRight == <<"Y", "e", "s", ",", " ", "t", "h", "a", "t", "'", "s", " ", "r", "i", "g", "h", "t", ",", " ", "t", "h", "i", "s", " ", "m", "a", "t", "c", "h", "e", "s", " ", "m", "y", " ", "s", "i", "t", "u", "a", "t", "i", "o", "n", ".">>
\* "Learning questions"
TextQuestionsOnly == <<"L", "e", "a", "r", "n", "i", "n", "g", " ", "q", "u", "e", "s", "t", "i", "o", "n", "s">>
\* "One method is training"
TextMethodNoMarker == <<"O", "n", "e", " ", "m", "e", "t", "h", "o", "d", " ", "i", "s", " ", "t", "r", "a", "i", "n", "i", "n", "g">>
\* "Step 2. Train volunteers"
TextMarkerNoMethod == <<"S", "t", "e", "p", " ", "2", ".", " ", "T", "r", "a", "i", "n", " ", "v", "o", "l", "u", "n", "t", "e", "e", "r", "s">>

\* with them "That is incorrect.", "Here are Performance Measures and
\* Learning Questions.", "Method 1. Train volunteers" and "3. another method"
PolicyTexts ==
  {RespAllTriggers, RespExplore, RespMeasuresOnly, TextYesThatsRight,
   TextQuestionsOnly, TextMethodNoMarker, TextMarkerNoMethod,
   <<"T", "h", "a", "t", " ", "i", "s", " ", "i", "n", "c", "o", "r", "r", "e", "c", "t", ".">>,
   <<"H", "e", "r", "e", " ", "a", "r", "e", " ", "P", "e", "r", "f", "o", "r", "m", "a", "n", "c", "e", " ", "M", "e", "a", "s", "u", "r", "e", "s", " ", "a", "n", "d", " ", "L", "e", "a", "r", "n", "i", "n", "g", " ", "Q", "u", "e", "s", "t", "i", "o", "n", "s", ".">>,
   <<"M", "e", "t", "h", "o", "d", " ", "1", ".", " ", "T", "r", "a", "i", "n", " ", "v", "o", "l", "u", "n", "t", "e", "e", "r", "s">>,
   <<"3", ".", " ", "a", "n", "o", "t", "h", "e", "r", " ", "m", "e", "t", "h", "o", "d">>}

\* user messages of the chat requests
UserMessages == {<<"h", "i">>}

\* str.startsWith(prefix)
StartsWith(str, prefix) ==
  Len(prefix) <= Len(str) /\ SubSeq(str, 1, Len(prefix)) = prefix

\* ------------------------------------------------- objective validation
\* the chat messages of the route run: with them one that states a
\* solution, "We need a chatbot"
RouteMessages ==
  UserMessages \cup {<<"W", "e", " ", "n", "e", "e", "d", " ", "a", " ", "c", "h", "a", "t", "b", "o", "t">>}

\* securityService.sanitizeInput: the characters < > " ' / are replaced by
\* their entities
SanitizeChar(c) ==
  CASE c = "<" -> <<"&", "l", "t", ";">>
    [] c = ">" -> <<"&", "g", "t", ";">>
    [] c = "\"" -> <<"&", "q", "u", "o", "t", ";">>
    [] c = "'" -> <<"&", "#", "x", "2", "7", ";">>
    [] c = "/" -> <<"&", "#", "x", "2", "F", ";">>
    [] OTHER -> <<c>>

RECURSIVE SanitizeInput(_)
SanitizeInput(input) ==
  IF input = <<>> THEN <<>>
  ELSE SanitizeChar(Head(input)) \o SanitizeInput(Tail(input))

\* validationPatterns.solutionStatements, the alternatives of each pattern
\* written out
SolutionStatements ==
  {<<"w", "e", " ", "n", "e", "e", "d", " ", "a">>,
   <<"w", "e", " ", "n", "e", "e", "d", " ", "a", "n">>,
   <<"w", "e", " ", "n", "e", "e", "d", " ", "t", "o">>,
   <<"i", "m", "p", "l", "e", "m", "e", "n", "t">>,
   <<"b", "u", "i", "l", "d">>,
   <<"c", "r", "e", "a", "t", "e">>,
   <<"d", "e", "v", "e", "l", "o", "p">>,
   <<"u", "s", "e", " ", "g", "p", "t">>,
   <<"u", "s", "e", " ", "c", "l", "a", "u", "d", "e">>,
   <<"u", "s", "e", " ", "a", "i">>,
   <<"u", "s", "e", " ", "c", "h", "a", "t", "b", "o", "t">>,
   <<"d", "e", "p", "l", "o", "y">>,
   <<"i", "n", "s", "t", "a", "l", "l">>}

\* the pattern lose \d+ (hours?|hrs?)
MatchesLoseHours(str) ==
  \E i \in 1..Len(str), j \in 1..Len(str) :
    /\ StartsWith(SubSeq(str, i, Len(str)), <<"l", "o", "s", "e", " ">>)
    /\ j >= i + 5
    /\ \A k \in (i + 5)..j :
         str[k] \in {"0", "1", "2", "3", "4", "5", "6", "7", "8", "9"}
    /\ \/ StartsWith(SubSeq(str, j + 1, Len(str)), <<" ", "h", "o", "u", "r">>)
       \/ StartsWith(SubSeq(str, j + 1, Len(str)), <<" ", "h", "r">>)

\* validationPatterns.problemKeywords without the first (MatchesLoseHours)
ProblemKeywords ==
  {<<"w", "a", "s", "t", "e">>,
   <<"s", "t", "r", "u", "g", "g", "l", "e">>,
   <<"c", "a", "n", "'", "t">>,
   <<"u", "n", "a", "b", "l", "e">>,
   <<"d", "i", "f", "f", "i", "c", "u", "l", "t">>,
   <<"c", "h", "a", "l", "l", "e", "n", "g", "e">>,
   <<"i", "s", "s", "u", "e">>,
   <<"p", "r", "o", "b", "l", "e", "m">>,
   <<"l", "a", "c", "k", "i", "n", "g">>,
   <<"m", "i", "s", "s", "i", "n", "g">>,
   <<"i", "n", "e", "f", "f", "i", "c", "i", "e", "n", "t">>}

\* validateObjectiveStatement(statement)
validateObjectiveStatement(statement) ==
  LET lowerStatement == ToLowerCase(statement)
      isSolution == \E p \in SolutionStatements : Includes(lowerStatement, p)
      isProblem == \/ MatchesLoseHours(lowerStatement)
                   \/ \E p \in ProblemKeywords : Includes(lowerStatement, p)
  IN [isValid |-> ~isSolution /\ isProblem, isSolution |-> isSolution,
      isProblem |-> isProblem]

\* req.session as express-session provides it to a request: the cookie
\* settings; the chat sessions live in the Map sessions, not here
ExpressSession == [cookie |-> [httpOnly |-> TRUE]]

\* validateObjective answers 400 instead of calling next()
validateObjectiveRejects(session, message) ==
  /\ "stage" \in DOMAIN session
  /\ session.stage = OBJECTIVE_DEFINITION
  /\ LET validation == validateObjectiveStatement(message) IN
       ~validation.isValid /\ validation.isSolution

\* ------------------------------------------------------- session records
\* an object without own properties
EmptyObject == [k \in {} |-> ""]

\* this.stageData of the assisted SessionState constructor
InitStageData ==
  [s \in COMPAS_STAGES |->
    CASE s = CONTEXT_DISCOVERY ->
           [situationDescription |-> "", stakeholders |-> "[]",
            constraints |-> "[]", artifacts |-> "[]", completed |-> FALSE]
      [] s = OBJECTIVE_DEFINITION ->
           [rootProblem |-> "", problemStatement |-> "", completed |-> FALSE]
      [] s = METHOD_IDEATION ->
           [methods |-> "[]", completed |-> FALSE]
      [] s = METHOD_SELECTION ->
           [chosenMethod |-> "null", methodRationale |-> "",
            completed |-> FALSE]
      [] s = IMPLEMENTATION_PLAN ->
           [implementationSteps |-> "[]", timeline |-> "",
            performanceMeasures |-> "[]", learningQuestions |-> "[]",
            completed |-> FALSE]
      [] s = COMPLETE ->
           [finalReport |-> "", completed |-> FALSE]]

\* the keyword SessionState classes have no stageData
NoStageData == [s \in {} |-> EmptyObject]

\* variant: the arguments of Object.assign are swapped, so that the fields
\* the record already has win over the extracted ones
ObjectAssign_TargetWins(target, source) ==
  [k \in (DOMAIN target) \cup (DOMAIN source) |->
     IF k \in DOMAIN target THEN target[k] ELSE source[k]]

\* the data fields of the keyword SessionState constructors; arrays are
\* sequences, null is "null" (only the express server has uploadedFiles)
InitSessionData(i) ==
  IF i = "server"
  THEN [context |-> [facts |-> <<>>, artifacts |-> <<>>],
        objective |-> "null", methods |-> <<>>, chosenMethod |-> "null",
        implementationPlan |-> "null", performanceMeasures |-> <<>>,
        learningQuestions |-> <<>>, uploadedFiles |-> <<>>]
  ELSE [context |-> [facts |-> <<>>, artifacts |-> <<>>],
        objective |-> "null", methods |-> <<>>, chosenMethod |-> "null",
        implementationPlan |-> "null", performanceMeasures |-> <<>>,
        learningQuestions |-> <<>>]

\* Object.assign(target, source)
ObjectAssign(target, source) ==
  [k \in (DOMAIN target) \cup (DOMAIN source) |->
     IF k \in DOMAIN source THEN source[k] ELSE target[k]]

\* SessionState.updateStageData
updateStageData(sd, stg, data) ==
  IF stg \in DOMAIN sd
  THEN [sd EXCEPT ![stg] = ObjectAssign(@, data)]
  ELSE sd

\* variant: the entry is put in front of the history (unshift for push)
addMessage_Unshift(hist, role, content, now, t) ==
  <<[role |-> role, content |-> content, timestamp |-> now, turn |-> t]>>
    \o hist

\* SessionState.addMessage; turn names the request that pushed the entry (the
\* code's entries carry no such field, it tells the entries of requests apart)
addMessage(hist, role, content, now, t) ==
  Append(hist, [role |-> role, content |-> content, timestamp |-> now,
                turn |-> t])

\* v || fallback, for a string or null
OrElse(v, fallback) == IF v \in {"", "null"} THEN fallback ELSE v

\* ------------------------------------------------------- system prompts
\* A system prompt is modelled by the stage whose instructions it carries
\* (phase) and by the session data serialized into it, in the order of the
\* text: label is the text before the JSON, of the stage whose record is
\* serialized (Null for a field of a keyword session), data the value.
NoPrompt == [phase |-> Null, sections |-> <<>>]

Section(label, s, sd) == [label |-> label, of |-> s, data |-> sd[s]]

Field(label, v) == [label |-> label, of |-> Null, data |-> v]

\* SessionState.getSystemPrompt of the assisted handler
getSystemPromptAssisted(stg, sd) ==
  [phase |-> stg,
   sections |->
     CASE stg = CONTEXT_DISCOVERY ->
            <<Section("Current Status", stg, sd)>>
       [] stg = OBJECTIVE_DEFINITION ->
            <<Section("Previous Context", CONTEXT_DISCOVERY, sd),
              Section("Current Status", stg, sd)>>
       [] stg = METHOD_IDEATION ->
            <<Section("Context", CONTEXT_DISCOVERY, sd),
              Section("Objective", OBJECTIVE_DEFINITION, sd),
              Section("Current Status", stg, sd)>>
       [] stg = METHOD_SELECTION ->
            <<Section("Available Methods", METHOD_IDEATION, sd),
              Section("Current Status", stg, sd)>>
       [] stg = IMPLEMENTATION_PLAN ->
            <<Section("Chosen Method", METHOD_SELECTION, sd),
              Section("Current Status", stg, sd)>>
       [] stg = COMPLETE -> <<>>]

\* SessionState.getSystemPrompt of the keyword implementations
getSystemPromptKeyword(i, stg, data) ==
  [phase |-> stg,
   sections |->
     IF i = "server"
     THEN <<Field("Context Facts", data.context.facts),
            Field("Artifacts Inventory", data.context.artifacts),
            Field("Objective", OrElse(data.objective, "Not yet defined")),
            Field("Methods", data.methods),
            Field("Chosen Method",
                  OrElse(data.chosenMethod, "Not yet selected"))>>
     ELSE <<Field("Context Facts", data.context.facts),
            Field("Objective", OrElse(data.objective, "Not yet defined"))>>]

getSystemPrompt(i, stg, sd, data) ==
  IF i = "assisted" THEN getSystemPromptAssisted(stg, sd)
  ELSE getSystemPromptKeyword(i, stg, data)

\* ------------------------------------------------------------- reports
\* The clock counts minutes.  progressMetrics.startTime is the reading at
\* construction.
startTime == 0

\* the minute of the local day at which the session was constructed (the
\* wall clock at clock 0)
VARIABLE dayMinute

\* new Date().toLocaleDateString(): the calendar day of the reading, counted
\* from the day of construction
LocaleDate(now) == (dayMinute + now) \div (24 * 60)

\* Math.round((new Date() - startTime) / 60000)
SessionMinutes(now) == now - startTime

\* list.length > 0 ? (the rendered list) : fallback
IfAny(list, fallback) == IF list = "[]" THEN fallback ELSE list

\* generateComprehensiveReport: the parts of the report text
generateComprehensiveReport(sd, now) ==
  LET contextData == sd[CONTEXT_DISCOVERY]
      objectiveData == sd[OBJECTIVE_DEFINITION]
      methodData == sd[METHOD_IDEATION]
      selectionData == sd[METHOD_SELECTION]
      planData == sd[IMPLEMENTATION_PLAN]
  IN [title |-> OrElse(contextData.situationDescription, "Challenge Analysis"),
      generatedOn |-> LocaleDate(now),
      totalSessionTime |-> SessionMinutes(now),
      situationDescription |->
        OrElse(contextData.situationDescription, "Not provided"),
      stakeholders |-> IfAny(contextData.stakeholders, "Not specified"),
      constraints |-> IfAny(contextData.constraints, "Not specified"),
      artifacts |-> IfAny(contextData.artifacts, "No artifacts uploaded"),
      rootProblem |-> OrElse(objectiveData.rootProblem, "Not defined"),
      problemStatement |->
        OrElse(objectiveData.problemStatement, "Not provided"),
      methods |-> IfAny(methodData.methods, "No methods proposed"),
      chosenMethod |->
        OrElse(selectionData.chosenMethod, "No method selected yet"),
      implementationSteps |->
        IfAny(planData.implementationSteps,
              "Implementation plan not yet developed"),
      performanceMeasures |->
        IfAny(planData.performanceMeasures, "Success metrics not yet defined"),
      learningQuestions |->
        IfAny(planData.learningQuestions,
              "Learning questions not yet defined")]

\* generateDOCX up to its await of Packer.toBuffer: the parts of the
\* document (the stakeholders are listed as they are, without a fallback)
generateDOCX(sd, now) ==
  LET contextData == sd[CONTEXT_DISCOVERY]
      objectiveData == sd[OBJECTIVE_DEFINITION]
      planData == sd[IMPLEMENTATION_PLAN]
  IN [title |-> OrElse(contextData.situationDescription, "Challenge Analysis"),
      generatedOn |-> LocaleDate(now),
      totalSessionTime |-> SessionMinutes(now),
      situationDescription |->
        OrElse(contextData.situationDescription, "Not provided"),
      stakeholders |-> contextData.stakeholders,
      rootProblem |-> OrElse(objectiveData.rootProblem, "Not defined"),
      problemStatement |->
        OrElse(objectiveData.problemStatement, "Not provided"),
      implementationSteps |->
        IfAny(planData.implementationSteps,
              "Implementation plan not yet developed"),
      performanceMeasures |->
        IfAny(planData.performanceMeasures, "Success metrics not yet defined")]

\* generateCOMPASReport of the express server: the parts of the report text
generateCOMPASReport(data) ==
  [title |-> OrElse(data.objective, "Nonprofit Challenge"),
   artifacts |->
     [i \in 1..Len(data.context.artifacts) |->
        LET artifact == data.context.artifacts[i] IN
        [filename |-> artifact.filename, mimetype |-> artifact.mimetype,
         owner |-> artifact.owner,
         prep |-> IF artifact.sensitivity = "high" THEN "Redact PII"
                  ELSE "None",
         source |-> artifact.source]],
   facts |-> data.context.facts,
   objective |-> OrElse(data.objective, "To be defined"),
   chosenMethod |-> OrElse(data.chosenMethod, "To be selected"),
   planTable |-> data.implementationPlan # "null",
   performanceMeasures |-> data.performanceMeasures,
   learningQuestions |-> data.learningQuestions]

\* the body of the get-session route of the serverless handlers (the keys
\* whose value is undefined are dropped by JSON.stringify)
SessionSnapshot(i, stg, hist, data) ==
  IF i = "assisted"
  THEN [stage |-> stg, conversationHistory |-> hist]
  ELSE [stage |-> stg, context |-> data.context, objective |-> data.objective,
        conversationHistory |-> hist]

\* the body of the get-session route of the express server
SessionSnapshotExpress(stg, hist, data) ==
  [stage |-> stg, context |-> data.context, objective |-> data.objective,
   methods |-> data.methods, chosenMethod |-> data.chosenMethod,
   implementationPlan |-> data.implementationPlan,
   performanceMeasures |-> data.performanceMeasures,
   learningQuestions |-> data.learningQuestions,
   conversationHistory |-> hist]

\* the report template of the simple-api handler: the parts of the text
generateSimpleReport(data) ==
  [facts |-> data.context.facts,
   objective |-> OrElse(data.objective, "To be defined")]

\* variant: the report is also stored as finalReport of the session
StageDataAfterReport_StoresFinalReport(i, sd) ==
  IF i = "assisted"
  THEN updateStageData(sd, COMPLETE, [finalReport |-> "report"])
  ELSE sd

\* the stage data after a report or an export was produced (the generators
\* and their routes only read the session)
StageDataAfterReport(i, sd) == sd

\* ---------------------------------------------------------- keyword policy
\* variant: the method_selection case sets the stage of the case before it
updateSessionStage_WrongTarget(stg, response) ==
  LET lowerResponse == ToLowerCase(response) IN
  CASE stg = CONTEXT_DISCOVERY ->
         IF Includes(lowerResponse, KwYesThatsRight)
            \/ Includes(lowerResponse, KwCorrect)
         THEN OBJECTIVE_DEFINITION ELSE stg
    [] stg = OBJECTIVE_DEFINITION ->
         IF Includes(lowerResponse, KwRootCause)
            \/ Includes(lowerResponse, KwProblemStatement)
         THEN METHOD_IDEATION ELSE stg
    [] stg = METHOD_IDEATION ->
         IF Includes(lowerResponse, KwMethod)
            /\ (Includes(lowerResponse, KwOne)
                \/ Includes(lowerResponse, KwTwo)
                \/ Includes(lowerResponse, KwThree))
         THEN METHOD_SELECTION ELSE stg
    [] stg = METHOD_SELECTION ->
         IF Includes(lowerResponse, KwImplementationPlan)
         THEN METHOD_IDEATION ELSE stg
    [] stg = IMPLEMENTATION_PLAN ->
         IF Includes(lowerResponse, KwPerformanceMeasures)
            /\ Includes(lowerResponse, KwLearningQuestions)
         THEN COMPLETE ELSE stg
    [] OTHER -> stg

\* variant: the context_discovery case has no break, so control falls
\* through into the test of the objective_definition case
updateSessionStage_FallsThrough(stg, response) ==
  LET lowerResponse == ToLowerCase(response) IN
  CASE stg = CONTEXT_DISCOVERY ->
         IF Includes(lowerResponse, KwRootCause)
            \/ Includes(lowerResponse, KwProblemStatement)
         THEN METHOD_IDEATION
         ELSE IF Includes(lowerResponse, KwYesThatsRight)
                 \/ Includes(lowerResponse, KwCorrect)
              THEN OBJECTIVE_DEFINITION ELSE stg
    [] stg = OBJECTIVE_DEFINITION ->
         IF Includes(lowerResponse, KwRootCause)
            \/ Includes(lowerResponse, KwProblemStatement)
         THEN METHOD_IDEATION ELSE stg
    [] stg = METHOD_IDEATION ->
         IF Includes(lowerResponse, KwMethod)
            /\ (Includes(lowerResponse, KwOne)
                \/ Includes(lowerResponse, KwTwo)
                \/ Includes(lowerResponse, KwThree))
         THEN METHOD_SELECTION ELSE stg
    [] stg = METHOD_SELECTION ->
         IF Includes(lowerResponse, KwImplementationPlan)
         THEN IMPLEMENTATION_PLAN ELSE stg
    [] stg = IMPLEMENTATION_PLAN ->
         IF Includes(lowerResponse, KwPerformanceMeasures)
            /\ Includes(lowerResponse, KwLearningQuestions)
         THEN COMPLETE ELSE stg
    [] OTHER -> stg

\* variant: the implementation_plan case joins its two tests with || for &&
updateSessionStage_EitherPhrase(stg, response) ==
  LET lowerResponse == ToLowerCase(response) IN
  CASE stg = CONTEXT_DISCOVERY ->
         IF Includes(lowerResponse, KwYesThatsRight)
            \/ Includes(lowerResponse, KwCorrect)
         THEN OBJECTIVE_DEFINITION ELSE stg
    [] stg = OBJECTIVE_DEFINITION ->
         IF Includes(lowerResponse, KwRootCause)
            \/ Includes(lowerResponse, KwProblemStatement)
         THEN METHOD_IDEATION ELSE stg
    [] stg = METHOD_IDEATION ->
         IF Includes(lowerResponse, KwMethod)
            /\ (Includes(lowerResponse, KwOne)
                \/ Includes(lowerResponse, KwTwo)
                \/ Includes(lowerResponse, KwThree))
         THEN METHOD_SELECTION ELSE stg
    [] stg = METHOD_SELECTION ->
         IF Includes(lowerResponse, KwImplementationPlan)
         THEN IMPLEMENTATION_PLAN ELSE stg
    [] stg = IMPLEMENTATION_PLAN ->
         IF Includes(lowerResponse, KwPerformanceMeasures)
            \/ Includes(lowerResponse, KwLearningQuestions)
         THEN COMPLETE ELSE stg
    [] OTHER -> stg

\* variant: the method_ideation case joins its two tests with || for &&
updateSessionStage_MethodOrMarker(stg, response) ==
  LET lowerResponse == ToLowerCase(response) IN
  CASE stg = CONTEXT_DISCOVERY ->
         IF Includes(lowerResponse, KwYesThatsRight)
            \/ Includes(lowerResponse, KwCorrect)
         THEN OBJECTIVE_DEFINITION ELSE stg
    [] stg = OBJECTIVE_DEFINITION ->
         IF Includes(lowerResponse, KwRootCause)
            \/ Includes(lowerResponse, KwProblemStatement)
         THEN METHOD_IDEATION ELSE stg
    [] stg = METHOD_IDEATION ->
         IF Includes(lowerResponse, KwMethod)
            \/ (Includes(lowerResponse, KwOne)
                \/ Includes(lowerResponse, KwTwo)
                \/ Includes(lowerResponse, KwThree))
         THEN METHOD_SELECTION ELSE stg
    [] stg = METHOD_SELECTION ->
         IF Includes(lowerResponse, KwImplementationPlan)
         THEN IMPLEMENTATION_PLAN ELSE stg
    [] stg = IMPLEMENTATION_PLAN ->
         IF Includes(lowerResponse, KwPerformanceMeasures)
            /\ Includes(lowerResponse, KwLearningQuestions)
         THEN COMPLETE ELSE stg
    [] OTHER -> stg

\* variant: the objective_definition case also stores the response as the
\* objective of the session
updateSessionStageData_SetsObjective(data, stg, response) ==
  IF stg = OBJECTIVE_DEFINITION
  THEN [data EXCEPT !.objective = response]
  ELSE data

\* updateSessionStage: the data fields of the session after the switch (no
\* case writes any of them)
updateSessionStageData(data, stg, response) == data

\* updateSessionStage: the stage after the switch on session.stage
updateSessionStage(stg, response) ==
  LET lowerResponse == ToLowerCase(response) IN
  CASE stg = CONTEXT_DISCOVERY ->
         IF Includes(lowerResponse, KwYesThatsRight)
            \/ Includes(lowerResponse, KwCorrect)
         THEN OBJECTIVE_DEFINITION ELSE stg
    [] stg = OBJECTIVE_DEFINITION ->
         IF Includes(lowerResponse, KwRootCause)
            \/ Includes(lowerResponse, KwProblemStatement)
         THEN METHOD_IDEATION ELSE stg
    [] stg = METHOD_IDEATION ->
         IF Includes(lowerResponse, KwMethod)
            /\ (Includes(lowerResponse, KwOne)
                \/ Includes(lowerResponse, KwTwo)
                \/ Includes(lowerResponse, KwThree))
         THEN METHOD_SELECTION ELSE stg
    [] stg = METHOD_SELECTION ->
         IF Includes(lowerResponse, KwImplementationPlan)
         THEN IMPLEMENTATION_PLAN ELSE stg
    [] stg = IMPLEMENTATION_PLAN ->
         IF Includes(lowerResponse, KwPerformanceMeasures)
            /\ Includes(lowerResponse, KwLearningQuestions)
         THEN COMPLETE ELSE stg
    [] OTHER -> stg

\* --------------------------------------------------------- assisted policy
\* What the analysis collaborator may answer.  kind:
\*   "callError"  openai.chat.completions.create rejects
\*   "unparsable" JSON.parse throws
\*   "null"       the text parses to null: reading analysis.extractedData throws
\*   "object"     the text parses to an object
\* shouldProgress is the JSON text of that key ("missing" when absent,
\* "\"yes\"" a non-empty string); edPresent is the truthiness of extractedData.
ShouldProgressValues == {"true", "false", "missing", "\"yes\""}

ObjectReplies ==
  [kind : {"object"}, shouldProgress : ShouldProgressValues,
   progressReason : {"r"}, edPresent : {TRUE},
   extractedData : {[rootProblem |-> "X"], [completed |-> TRUE],
                    [completed |-> FALSE]}]
  \cup
  [kind : {"object"}, shouldProgress : ShouldProgressValues,
   progressReason : {"r"}, edPresent : {FALSE},
   extractedData : {EmptyObject}]

FailedReply(k) ==
  [kind |-> k, shouldProgress |-> "missing", progressReason |-> "",
   edPresent |-> FALSE, extractedData |-> EmptyObject]

AnalysisReplies ==
  ObjectReplies \cup {FailedReply("callError"), FailedReply("unparsable"),
                      FailedReply("null")}

\* the answers of the analysis call tried in a run of kind m; on requests
\* whose handlers overlap: one that advances
\* and one that does not, each with and without extracted data, and a call
\* that fails
RepliesOf(m) ==
  IF m # "overlap" THEN AnalysisReplies
  ELSE {reply \in AnalysisReplies :
          \/ reply.kind = "callError"
          \/ /\ reply.kind = "object"
             /\ reply.shouldProgress \in {"true", "false"}
             /\ reply.extractedData \in {[rootProblem |-> "X"], EmptyObject}}

\* the try block of analyzeAndProgressStage throws before any mutation
AnalysisThrows(reply) == reply.kind \in {"callError", "unparsable", "null"}

\* JavaScript truthiness of analysis.shouldProgress
Truthy(v) == v \in {"true", "\"yes\""}

\* if (analysis.extractedData) session.updateStageData(session.stage, ...)
MergeExtracted(sd, stg, reply) ==
  IF reply.edPresent THEN updateStageData(sd, stg, reply.extractedData)
  ELSE sd

\* if (analysis.shouldProgress) { nextStage = ...; if (nextStage) {...} }
ShouldAdvance(stg, reply) ==
  Truthy(reply.shouldProgress) /\ NextStage(stg) # Null

\* variant: the stage is advanced before the extracted data is merged, so
\* the data lands in the record of the stage just entered
analyzeAndProgressStage_AdvanceFirst(stg, sd, sst, reply, now) ==
  IF AnalysisThrows(reply)
  THEN [stage |-> stg, stageData |-> sd, stageStartTimes |-> sst]
  ELSE IF ShouldAdvance(stg, reply)
       THEN [stage |-> NextStage(stg),
             stageData |->
               MergeExtracted(updateStageData(sd, stg, [completed |-> TRUE]),
                              NextStage(stg), reply),
             stageStartTimes |->
               [s \in (DOMAIN sst) \cup {NextStage(stg)} |->
                  IF s = NextStage(stg) THEN now ELSE sst[s]]]
       ELSE [stage |-> stg, stageData |-> MergeExtracted(sd, stg, reply),
             stageStartTimes |-> sst]

\* variant: the stage is marked completed before the extracted data is
\* merged, so a completed key of the extracted data has the last word
analyzeAndProgressStage_MarkFirst(stg, sd, sst, reply, now) ==
  IF AnalysisThrows(reply)
  THEN [stage |-> stg, stageData |-> sd, stageStartTimes |-> sst]
  ELSE IF ShouldAdvance(stg, reply)
       THEN [stage |-> NextStage(stg),
             stageData |->
               MergeExtracted(updateStageData(sd, stg, [completed |-> TRUE]),
                              stg, reply),
             stageStartTimes |->
               [s \in (DOMAIN sst) \cup {NextStage(stg)} |->
                  IF s = NextStage(stg) THEN now ELSE sst[s]]]
       ELSE [stage |-> stg, stageData |-> MergeExtracted(sd, stg, reply),
             stageStartTimes |-> sst]

\* variant: an advance is applied a second time when the stage entered has
\* a successor
analyzeAndProgressStage_AdvancesTwice(stg, sd, sst, reply, now) ==
  IF AnalysisThrows(reply)
  THEN [stage |-> stg, stageData |-> sd, stageStartTimes |-> sst]
  ELSE LET merged == MergeExtracted(sd, stg, reply)
           next == NextStage(stg)
           last == IF next # Null /\ NextStage(next) # Null
                   THEN NextStage(next) ELSE next
       IN
       IF ShouldAdvance(stg, reply)
       THEN [stage |-> last,
             stageData |->
               updateStageData(
                 updateStageData(merged, stg, [completed |-> TRUE]),
                 next, [completed |-> last # next]),
             stageStartTimes |->
               [s \in (DOMAIN sst) \cup {next, last} |->
                  IF s \in {next, last} THEN now ELSE sst[s]]]
       ELSE [stage |-> stg, stageData |-> merged, stageStartTimes |-> sst]

\* variant: an analysis that does not advance stamps the current stage
\* again
analyzeAndProgressStage_Restamps(stg, sd, sst, reply, now) ==
  IF AnalysisThrows(reply)
  THEN [stage |-> stg, stageData |-> sd, stageStartTimes |-> sst]
  ELSE LET merged == MergeExtracted(sd, stg, reply) IN
       IF ShouldAdvance(stg, reply)
       THEN [stage |-> NextStage(stg),
             stageData |-> updateStageData(merged, stg, [completed |-> TRUE]),
             stageStartTimes |->
               [s \in (DOMAIN sst) \cup {NextStage(stg)} |->
                  IF s = NextStage(stg) THEN now ELSE sst[s]]]
       ELSE [stage |-> stg, stageData |-> merged,
             stageStartTimes |-> [sst EXCEPT ![stg] = now]]

\* the session after the try block of analyzeAndProgressStage
analyzeAndProgressStage(stg, sd, sst, reply, now) ==
  IF AnalysisThrows(reply)
  THEN [stage |-> stg, stageData |-> sd, stageStartTimes |-> sst]
  ELSE LET merged == MergeExtracted(sd, stg, reply) IN
       IF ShouldAdvance(stg, reply)
       THEN [stage |-> NextStage(stg),
             stageData |-> updateStageData(merged, stg, [completed |-> TRUE]),
             stageStartTimes |->
               [s \in (DOMAIN sst) \cup {NextStage(stg)} |->
                  IF s = NextStage(stg) THEN now ELSE sst[s]]]
       ELSE [stage |-> stg, stageData |-> merged, stageStartTimes |-> sst]

\* the value analyzeAndProgressStage returns (stageAnalysis of the response)
AnalysisError ==
  [shouldProgress |-> "false", progressReason |-> "Analysis error",
   edPresent |-> TRUE, extractedData |-> EmptyObject]

NoAnalysis ==
  [shouldProgress |-> "missing", progressReason |-> "",
   edPresent |-> FALSE, extractedData |-> EmptyObject]

AnalysisResult(reply) ==
  IF AnalysisThrows(reply) THEN AnalysisError
  ELSE [shouldProgress |-> reply.shouldProgress,
        progressReason |-> reply.progressReason,
        edPresent |-> reply.edPresent,
        extractedData |-> reply.extractedData]

\* ------------------------------------------------------------------ state
VARIABLES
  impl,             \* which implementation serves the session
  mode,             \* what this run explores: "lifecycle" requests one after
                    \* another, "overlap" requests in flight together,
                    \* "timed" requests one after another as the clock advances
  stage,            \* session.stage
  stageData,        \* session.stageData (assisted only)
  stageStartTimes,  \* session.progressMetrics.stageStartTimes (assisted only)
  history,          \* session.conversationHistory
  clock,            \* what new Date() returns
  turns,            \* the chat requests of the session and where each stands
  response,         \* the chat response returned last, none once another
                    \* chat request was received
  version,          \* number of analysis results that changed the session
  sessionData,      \* the data fields of the keyword SessionState classes
  report,           \* the answer returned last to a request other than chat
  sessions,         \* the identifiers in the session store
  files,            \* the files on disk, by directory
  client,           \* the web client's view of the session
  storing,          \* the calls of storeFileSecurely that have written the
                    \* file and not yet its metadata
  rendering,        \* the documents built by the export requests that are
                    \* suspended at their await (generatePDF, Packer.toBuffer)
  purging           \* the passes of purgeOldFiles that are under way

vars == <<impl, mode, stage, stageData, stageStartTimes, history, clock, turns,
          response, version, sessionData, report, sessions, files, client,
          storing, rendering, purging, dayMinute>>

Impls == {"server", "simple", "assisted"}
KeywordImpls == {"server", "simple"}

\* the kinds of run of Spec (PolicySpec runs as "policy", ReportSpec as
\* "report", ExportSpec as "export")
Modes == {"lifecycle", "overlap", "timed"}

Max(a, b) == IF a > b THEN a ELSE b

Turns == 1..Max(MaxTurns, Max(OverlapTurns, TimedTurns))

\* a request: pc, the locals message and assistantMessage, the system prompt
\* sent with its completion request, the stage and the stage data written
\* into its analysis prompt, and, for the lost-update claims, how many
\* changes of the session its analysis prompt saw (seen) and which change of
\* the session its own result made (applied, 0 for none).  While the handler
\* is suspended at the await of its progression policy the request keeps
\* what the policy settled with: the answer of the analysis call from which
\* analyzeAndProgressStage builds its return value (reply), and whether
\* updateSessionStage of the express server rejected (threw), and its place
\* among the handlers that wait to be resumed (queued, 0 when not suspended)
IdleTurn ==
  [pc |-> "idle", message |-> <<>>, assistantMessage |-> <<>>,
   prompt |-> NoPrompt, reqStage |-> Null, reqData |-> EmptyObject,
   seen |-> 0, applied |-> 0, reply |-> FailedReply("none"), threw |-> FALSE,
   queued |-> 0]

\* no report was asked for yet
NoReport ==
  [request |-> [method |-> "", path |-> <<>>],
   status |-> 0, kind |-> "", error |-> "",
   body |-> EmptyObject, of |-> EmptyObject]

\* the identifier of the session followed, an identifier that was never
\* given out, and the identifiers uuidv4 gives to further sessions
SessionId == <<"s", "1">>
UnknownId == <<"z", "9">>
FreshIds == <<<<"n", "1">>, <<"n", "2">>, <<"n", "3">>>>

\* the web client after createSession: the identifier and the stage of the
\* answer, no chat request under way (outbox holds the message of a request
\* that was sent and has not reached the handler, waiting is the turn of
\* the request the handler has received, 0 if none)
NewClient ==
  [sessionId |-> SessionId, currentStage |-> CONTEXT_DISCOVERY,
   outbox |-> <<>>, waiting |-> 0]

NoResponse ==
  [turn |-> 0, status |-> 0, error |-> "", message |-> <<>>,
   stage |-> Null, stageAnalysis |-> NoAnalysis]

\* the requests explored in this run, how many of them at once, and how far
\* the clock advances
TurnLimit ==
  CASE mode = "lifecycle" -> MaxTurns
    [] mode = "overlap" -> OverlapTurns
    [] mode = "timed" -> TimedTurns
    [] mode = "report" -> ReportTurns
    [] mode = "export" -> ExportTurns
    [] mode = "route" -> RouteTurns
    [] mode = "client" -> ClientTurns
    [] mode = "policy" ->
         \* the session is walked through the stages by turns whose text
         \* carries every trigger; a turn with another text is the last
         IF response = NoResponse \/ response.message = RespAllTriggers
         THEN MaxTurns ELSE 0
InFlightLimit == IF mode = "overlap" THEN MaxInFlight ELSE 1
ClockLimit == IF mode \in {"timed", "report", "export"} THEN MaxClock ELSE 0

\* pc of a request: "idle" not yet received, "awaitCompletion" and
\* "awaitAnalysis" suspended at the await of that call, "awaitPolicy"
\* suspended at the await of the progression policy, which has settled
\* (await updateSessionStage of the express server, await
\* analyzeAndProgressStage of the assisted handler), "done" answered with
\* the turn's result, "completionFailed" answered from the catch block after
\* the completion call rejected, "threw" answered from the catch block after
\* the handler's own code threw
InFlight ==
  {t \in Turns :
     turns[t].pc \in {"awaitCompletion", "awaitAnalysis", "awaitPolicy"}}

\* the handlers whose policy has settled and that wait to be resumed
Suspended == {t \in Turns : turns[t].pc = "awaitPolicy"}

\* a handler is resumed when the promise it awaits has settled (the promise
\* of its own updateSessionStage or analyzeAndProgressStage call): handlers
\* are resumed in the order in which their policies settled
ResumesNext(t) ==
  /\ t \in Suspended
  /\ turns[t].queued = 1

\* no handler waits to be resumed: the event loop takes its next task (a
\* request, a timer).  A suspended handler is resumed before that; only
\* calls that settled in the same turn of the loop run in between.
LoopIdle == Suspended = {}

\* a pass of purgeOldFiles that has read the clock and awaits readdir: pc
\* is the call awaited ("readdir", "stat", "unlink"), rest the entries of
\* the listing not yet examined, file the entry being unlinked
Pass(now) == [now |-> now, pc |-> "readdir", rest |-> {}, file |-> <<>>]

\* the times of day at which the session is constructed: midnight, and so
\* late that the local date changes at the last reading of the clock.  The
\* time of day is followed where the date is read, which the export routes
\* of the assisted handler do.
DayStarts(i, m) ==
  IF i = "assisted" /\ m \in {"report", "export"}
  THEN {0, 24 * 60 - MaxClock}
  ELSE {0}

\* new SessionState(sessionId), sessions.set(sessionId, session); in a run
\* with the purge task startSecurityTasks has set the timer and called
\* purgeOldFiles once
InitImpl(i, m) ==
  /\ impl = i
  /\ mode = m
  /\ stage = CONTEXT_DISCOVERY
  /\ stageData = IF i = "assisted" THEN InitStageData ELSE NoStageData
  /\ clock = 0
  /\ stageStartTimes =
       IF i = "assisted" THEN [s \in {CONTEXT_DISCOVERY} |-> 0]
       ELSE [s \in {} |-> 0]
  /\ history = <<>>
  /\ turns = [t \in Turns |-> IdleTurn]
  /\ response = NoResponse
  /\ version = 0
  /\ sessionData = IF i = "assisted" THEN EmptyObject ELSE InitSessionData(i)
  /\ report = NoReport
  /\ sessions = {SessionId}
  /\ files = [uploads |-> {}, secure |-> {}]
  /\ client = NewClient
  /\ storing = {}
  /\ rendering = <<>>
  /\ purging = IF m = "purge" THEN <<Pass(0)>> ELSE <<>>
  /\ dayMinute \in DayStarts(i, m)

Init == \E i \in Impls, m \in Modes : InitImpl(i, m)

\* time passes between two steps
Tick ==
  /\ LoopIdle
  /\ clock < ClockLimit
  /\ clock' = clock + 1
  /\ UNCHANGED <<purging, rendering, storing, sessions, files, client, impl, dayMinute, mode, stage, stageData,
                 stageStartTimes, history, turns, response, version,
                 sessionData, report>>

\* the messages (error.message) the completion call rejects with:
\* "network"
CompletionErrors == {<<"n", "e", "t", "w", "o", "r", "k">>}

\* error.message of the TypeError of null.toLowerCase():
\* "Cannot read properties of null (reading 'toLowerCase')"
TypeErrorNull ==
  <<"C", "a", "n", "n", "o", "t", " ", "r", "e", "a", "d", " ", "p", "r", "o", "p", "e", "r", "t", "i", "e", "s", " ", "o", "f", " ", "n", "u", "l", "l", " ", "(", "r", "e", "a", "d", "i", "n", "g", " ", "'", "t", "o", "L", "o", "w", "e", "r", "C", "a", "s", "e", "'", ")">>

\* variant: the catch block answers without setting the status
ErrorResponse_Status200(t, i, cause) ==
  [turn |-> t, status |-> 200,
   error |-> "",
   message |-> IF i = "server" THEN <<>> ELSE cause,
   stage |-> Null, stageAnalysis |-> NoAnalysis]

\* the catch block of the chat handler: the error response.  The body of
\* the serverless handlers carries error.message as well, the body of the
\* express server has the key error only.
ErrorResponse(t, i, cause) ==
  [turn |-> t, status |-> 500,
   error |-> IF i = "server" THEN "Failed to process message"
             ELSE "Internal server error",
   message |-> IF i = "server" THEN <<>> ELSE cause,
   stage |-> Null, stageAnalysis |-> NoAnalysis]

\* the response of a turn of the keyword implementations
KeywordResponse(t, r, stg) ==
  [turn |-> t, status |-> 200, error |-> "", message |-> r, stage |-> stg,
   stageAnalysis |-> NoAnalysis]

\* variant: analyzeAndProgressStage has no try/catch, so a failed analysis
\* reaches the catch block of the handler
AssistedResponse_Propagates(t, r, stg, reply) ==
  IF AnalysisThrows(reply)
  THEN [turn |-> t, status |-> 500, error |-> "Internal server error",
        message |-> <<>>, stage |-> Null, stageAnalysis |-> NoAnalysis]
  ELSE [turn |-> t, status |-> 200, error |-> "", message |-> r,
        stage |-> stg, stageAnalysis |-> AnalysisResult(reply)]

\* the response of a turn of the assisted implementation
AssistedResponse(t, r, stg, reply) ==
  [turn |-> t, status |-> 200, error |-> "", message |-> r, stage |-> stg,
   stageAnalysis |-> AnalysisResult(reply)]

\* chat route up to the first await: the user message is appended and the
\* completion request is sent
ChatTurnBegins(t, msg) ==
  /\ LoopIdle
  /\ turns[t].pc = "idle"
  /\ t <= TurnLimit
  /\ \A u \in Turns : u < t => turns[u].pc # "idle"
  /\ Cardinality(InFlight) < InFlightLimit
  /\ history' = addMessage(history, "user", msg, clock, t)
  /\ turns' = [turns EXCEPT ![t] =
                 [IdleTurn EXCEPT
                    !.pc = "awaitCompletion", !.message = msg,
                    !.prompt = getSystemPrompt(impl, stage, stageData,
                                               sessionData)]]
  /\ response' = NoResponse
  /\ UNCHANGED <<impl, dayMinute, mode, stage, stageData, stageStartTimes, clock,
                 version, sessionData, storing, rendering, purging>>

\* the chat route for the session followed, up to the first await
ChatStart(t, msg) ==
  /\ ChatTurnBegins(t, msg)
  /\ UNCHANGED <<sessions, files, client, report>>

\* the completion call rejects: the handler's catch answers with an error
CompletionFail(t, cause) ==
  /\ turns[t].pc = "awaitCompletion"
  /\ Cardinality({u \in Turns : turns[u].pc = "completionFailed"})
       < MaxFailures
  /\ turns' = [turns EXCEPT ![t] = [IdleTurn EXCEPT !.pc = "completionFailed"]]
  /\ response' = ErrorResponse(t, impl, cause)
  /\ UNCHANGED <<purging, rendering, storing, sessions, files, client, impl, dayMinute, mode, stage, stageData,
                 stageStartTimes, history, clock, version, sessionData,
                 report>>

\* keyword implementations: the completion resolves, the assistant message
\* is appended and updateSessionStage runs (response.toLowerCase() throws a
\* TypeError for a null content).  In simple-api.js the call is synchronous
\* and the response is sent in the same step.  In the express server
\* updateSessionStage is an async function and the handler awaits it: the
\* handler is suspended with the stage already set, and with the promise
\* rejected if the function threw.
CompletionReturnKeyword(t, r) ==
  /\ impl \in KeywordImpls
  /\ turns[t].pc = "awaitCompletion"
  /\ history' = addMessage(history, "assistant", r, clock, t)
  /\ stage' = IF r = NullContent THEN stage ELSE updateSessionStage(stage, r)
  /\ sessionData' = IF r = NullContent THEN sessionData
                    ELSE updateSessionStageData(sessionData, stage, r)
  /\ IF impl = "server"
     THEN /\ turns' = [turns EXCEPT ![t] =
                         [IdleTurn EXCEPT
                            !.pc = "awaitPolicy", !.assistantMessage = r,
                            !.threw = (r = NullContent),
                            !.queued = Cardinality(Suspended) + 1]]
          /\ response' = response
     ELSE IF r = NullContent
     THEN /\ turns' = [turns EXCEPT ![t] = [IdleTurn EXCEPT !.pc = "threw"]]
          /\ response' = ErrorResponse(t, impl, TypeErrorNull)
     ELSE /\ turns' = [turns EXCEPT ![t] = [IdleTurn EXCEPT !.pc = "done"]]
          /\ response' = KeywordResponse(t, r, stage')
  /\ UNCHANGED <<purging, rendering, storing, sessions, files, client, impl, dayMinute, mode, stageData,
                 stageStartTimes, clock, version, report>>

\* assisted implementation: the completion resolves, the assistant message
\* is appended, analyzeAndProgressStage builds its prompt from the session
\* and sends the analysis request
CompletionReturnAssisted(t, r) ==
  /\ impl = "assisted"
  /\ turns[t].pc = "awaitCompletion"
  /\ history' = addMessage(history, "assistant", r, clock, t)
  /\ turns' = [turns EXCEPT ![t] =
                 [@ EXCEPT !.pc = "awaitAnalysis", !.assistantMessage = r,
                           !.prompt = NoPrompt,
                           !.reqStage = stage, !.reqData = stageData[stage],
                           !.seen = version]]
  /\ UNCHANGED <<purging, rendering, storing, sessions, files, client, impl, dayMinute, mode, stage, stageData,
                 stageStartTimes, clock, response, version, sessionData,
                 report>>

\* assisted implementation: the analysis call settles and the rest of
\* analyzeAndProgressStage runs; the handler, which awaits the promise of
\* analyzeAndProgressStage, stays suspended
AnalysisReturn(t, reply) ==
  /\ impl = "assisted"
  /\ turns[t].pc = "awaitAnalysis"
  /\ LET after == analyzeAndProgressStage(stage, stageData, stageStartTimes,
                                          reply, clock) IN
       /\ stage' = after.stage
       /\ stageData' = after.stageData
       /\ stageStartTimes' = after.stageStartTimes
  /\ version' = IF stage' # stage \/ stageData' # stageData
                THEN version + 1 ELSE version
  /\ turns' = [turns EXCEPT ![t] =
                 [IdleTurn EXCEPT
                    !.pc = "awaitPolicy",
                    !.assistantMessage = turns[t].assistantMessage,
                    !.reply = reply, !.seen = turns[t].seen,
                    !.applied = IF version' # version THEN version' ELSE 0,
                    !.queued = Cardinality(Suspended) + 1]]
  /\ UNCHANGED <<purging, rendering, storing, sessions, files, client, impl, dayMinute, mode, history, clock,
                 response, sessionData, report>>

\* the handler suspended at the await of its progression policy is resumed:
\* the catch block answers if the policy rejected, otherwise the response is
\* built with the stage the session has now
ChatAnswer(t) ==
  /\ ResumesNext(t)
  /\ turns' = [u \in Turns |->
                 IF u = t
                 THEN [IdleTurn EXCEPT
                         !.pc = IF turns[t].threw THEN "threw" ELSE "done",
                         !.seen = turns[t].seen,
                         !.applied = turns[t].applied]
                 ELSE IF u \in Suspended
                 THEN [turns[u] EXCEPT !.queued = @ - 1]
                 ELSE turns[u]]
  /\ response' =
       IF turns[t].threw THEN ErrorResponse(t, impl, TypeErrorNull)
       ELSE IF impl = "assisted"
       THEN AssistedResponse(t, turns[t].assistantMessage, stage,
                             turns[t].reply)
       ELSE KeywordResponse(t, turns[t].assistantMessage, stage)
  /\ UNCHANGED <<purging, rendering, storing, sessions, files, client, impl, dayMinute, mode, stage, stageData,
                 stageStartTimes, history, clock, version, sessionData,
                 report>>

\* the value of a property that an object does not have
Undefined == "undefined"

\* obj[key] of a JavaScript object
Property(obj, key) == IF key \in DOMAIN obj THEN obj[key] ELSE Undefined

\* req.file as multer's disk storage leaves it for a.pdf sent as
\* application/pdf (fieldname, encoding, destination, filename and path play
\* no part): the media type is under mimetype, there is no key type
MulterFile ==
  [originalname |-> "a.pdf", mimetype |-> "application/pdf", size |-> 1]

\* validateFileUpload of validation.js: the size limit, the media types
\* allowed, and the result with one error per failed test
maxSize == 10 * 1024 * 1024

allowedTypes ==
  {"application/pdf", "text/csv", "application/json", "text/plain"}

validateFileUpload(file) ==
  LET errors ==
        (IF file.size > maxSize THEN <<"size">> ELSE <<>>)
        \o (IF Property(file, "type") \notin allowedTypes
            THEN <<"type">> ELSE <<>>)
  IN [isValid |-> Len(errors) = 0, errors |-> errors]

\* an uploaded file as the upload route records it (its id, path and size
\* play no part in any report or prompt)
Artifact(now) ==
  [filename |-> MulterFile.originalname, mimetype |-> MulterFile.mimetype,
   uploadedAt |-> now,
   owner |-> "Unknown", sensitivity |-> "normal", source |-> "Manual upload"]

\* what the session followed holds
SessionContent ==
  [stage |-> stage, stageData |-> stageData, history |-> history,
   sessionData |-> sessionData]

\* ---------------------------------------------------------------- routes
\* request paths, after the handler removed the function prefix (serverless)
\* or below /api (express)
PathSessions == <<"/", "s", "e", "s", "s", "i", "o", "n", "s">>
SegSessions == <<"s", "e", "s", "s", "i", "o", "n", "s">>
SegChat == <<"c", "h", "a", "t">>
SegReport == <<"r", "e", "p", "o", "r", "t">>
SegUpload == <<"u", "p", "l", "o", "a", "d">>
SegExport == <<"e", "x", "p", "o", "r", "t">>
SegExportPdf == SegExport \o <<"/", "p", "d", "f">>
SegExportDocx == SegExport \o <<"/", "d", "o", "c", "x">>

\* '/sessions/' + id + '/' + seg
PathOf(id, seg) ==
  PathSessions \o <<"/">> \o id \o (IF seg = <<>> THEN <<>> ELSE <<"/">> \o seg)

\* str.split(sep) for a separator of one character
RECURSIVE Split(_, _)
Split(str, sep) ==
  IF \A k \in 1..Len(str) : str[k] # sep THEN <<str>>
  ELSE LET k == CHOOSE j \in 1..Len(str) :
                  str[j] = sep /\ \A h \in 1..(j - 1) : str[h] # sep
       IN <<SubSeq(str, 1, k - 1)>> \o Split(SubSeq(str, k + 1, Len(str)), sep)

\* path.split('/')[2] and req.params.sessionId
ParamSessionId(path) ==
  LET parts == Split(path, "/") IN
    IF Len(parts) >= 3 THEN parts[3] ELSE <<>>

\* exports.handler of the serverless functions: the first test that holds
\* picks the route.  The two export routes are routes of the assisted
\* handler only.
ServerlessRoute(i, method, path) ==
  IF method = "POST" /\ path = PathSessions THEN "create"
  ELSE IF method = "GET" /\ StartsWith(path, PathSessions \o <<"/">>)
  THEN "getSession"
  ELSE IF method = "POST" /\ Includes(path, <<"/">> \o SegChat) THEN "chat"
  ELSE IF method = "GET" /\ Includes(path, <<"/">> \o SegReport)
  THEN "report"
  ELSE IF i = "assisted" /\ method = "POST"
          /\ Includes(path, <<"/">> \o SegExportPdf)
  THEN "exportPdf"
  ELSE IF i = "assisted" /\ method = "POST"
          /\ Includes(path, <<"/">> \o SegExportDocx)
  THEN "exportDocx"
  ELSE "notFound"

\* the routes of the express server: a path matches a pattern segment by
\* segment
ExpressRoute(method, path) ==
  LET parts == Split(path, "/") IN
    IF Len(parts) < 2 \/ parts[1] # <<>> \/ parts[2] # SegSessions
    THEN "notFound"
    ELSE IF method = "POST" /\ Len(parts) = 2 THEN "create"
    ELSE IF method = "GET" /\ Len(parts) = 3 THEN "getSession"
    ELSE IF method = "POST" /\ Len(parts) = 4 /\ parts[4] = SegChat
    THEN "chat"
    ELSE IF method = "POST" /\ Len(parts) = 4 /\ parts[4] = SegUpload
    THEN "upload"
    ELSE IF method = "GET" /\ Len(parts) = 4 /\ parts[4] = SegReport
    THEN "report"
    ELSE IF method = "POST" /\ Len(parts) = 4 /\ parts[4] = SegExport
    THEN "export"
    ELSE "notFound"

Route(i, method, path) ==
  IF i = "server" THEN ExpressRoute(method, path)
  ELSE ServerlessRoute(i, method, path)

\* the answer to a request for a session that is not in the store
SessionNotFound(method, path) ==
  [request |-> [method |-> method, path |-> path], status |-> 404, kind |-> "error", error |-> "Session not found",
   body |-> EmptyObject, of |-> EmptyObject]

\* the text of express' final handler: "Cannot " + method + " " + url,
\* the url being the prefix /api under which the server mounts its routes
\* and the path
CannotText(method, path) ==
  <<"C", "a", "n", "n", "o", "t", " ">>
    \o (IF method = "GET" THEN <<"G", "E", "T">> ELSE <<"P", "O", "S", "T">>)
    \o <<" ">> \o <<"/", "a", "p", "i">> \o path

\* the answer when no route matches: the serverless handlers fall through
\* to their 404 'Not found'; the express server has no handler of its own
\* after its routes, the request ends in express' final handler, which
\* answers 404 with a page of text and no JSON body
RouteNotFound(i, method, path) ==
  IF i = "server"
  THEN [request |-> [method |-> method, path |-> path], status |-> 404,
        kind |-> "html", error |-> "",
        body |-> [text |-> CannotText(method, path)], of |-> EmptyObject]
  ELSE [request |-> [method |-> method, path |-> path], status |-> 404,
        kind |-> "error", error |-> "Not found",
        body |-> EmptyObject, of |-> EmptyObject]

\* the answers of the get-session and the report route for a session in
\* the store; of the further sessions only the creation is followed, they
\* hold what new SessionState(sessionId) gives
RouteAnswer(route, path) ==
  LET session ==
        IF ParamSessionId(path) = SessionId THEN SessionContent
        ELSE [stage |-> CONTEXT_DISCOVERY,
              stageData |-> IF impl = "assisted" THEN InitStageData
                            ELSE NoStageData,
              history |-> <<>>,
              sessionData |-> IF impl = "assisted" THEN EmptyObject
                              ELSE InitSessionData(impl)]
  IN
  IF route = "report"
  THEN [request |-> [method |-> "GET", path |-> path], status |-> 200,
        kind |-> "report", error |-> "",
        body |-> IF impl = "server"
                 THEN generateCOMPASReport(session.sessionData)
                 ELSE IF impl = "assisted"
                 THEN generateComprehensiveReport(session.stageData, clock)
                 ELSE generateSimpleReport(session.sessionData),
        of |-> session]
  ELSE [request |-> [method |-> "GET", path |-> path], status |-> 200,
        kind |-> "session", error |-> "",
        body |-> IF impl = "server"
                 THEN SessionSnapshotExpress(session.stage, session.history,
                                             session.sessionData)
                 ELSE SessionSnapshot(impl, session.stage, session.history,
                                      session.sessionData),
        of |-> session]

\* POST /api/sessions/{id}/upload of the express server.  upload.single
\* writes the file into the upload directory under a fresh name, then
\* validateUpload tests req.file and answers 400 if the test fails, then
\* the route looks the session up and records the artifact.
UploadRoute(path) ==
  /\ impl = "server"
  /\ LoopIdle
  /\ Cardinality(files.uploads) < MaxUploads
  /\ files' = [files EXCEPT
                 !.uploads = @ \cup {[name |-> Cardinality(@) + 1,
                                      mtime |-> clock]}]
  /\ LET validation == validateFileUpload(MulterFile)
         request == [method |-> "POST", path |-> path]
     IN IF ~validation.isValid
        THEN /\ report' = [request |-> request, status |-> 400,
                           kind |-> "error",
                           error |-> "File validation failed",
                           body |-> [errors |-> validation.errors],
                           of |-> EmptyObject]
             /\ sessionData' = sessionData
        ELSE IF ParamSessionId(path) \notin sessions
        THEN /\ report' = SessionNotFound("POST", path)
             /\ sessionData' = sessionData
        ELSE /\ ParamSessionId(path) = SessionId
             /\ report' = [request |-> request, status |-> 200,
                           kind |-> "artifact", error |-> "",
                           body |-> [artifact |-> Artifact(clock)],
                           of |-> EmptyObject]
             /\ sessionData' =
                  [sessionData EXCEPT
                     !.context.artifacts = Append(@, Artifact(clock)),
                     !.uploadedFiles = Append(@, Artifact(clock))]
  /\ UNCHANGED <<purging, rendering, storing, sessions, client, impl, dayMinute, mode, stage, stageData,
                 stageStartTimes, history, clock, turns, response, version>>

\* a file is uploaded for the session followed
Upload == UploadRoute(PathOf(SessionId, SegUpload))

\* a GET request, routed and answered
Get(path) ==
  LET route == Route(impl, "GET", path) IN
    /\ LoopIdle
    /\ report' =
         IF route = "notFound" THEN RouteNotFound(impl, "GET", path)
         ELSE IF ParamSessionId(path) \notin sessions
         THEN SessionNotFound("GET", path)
         ELSE RouteAnswer(route, path)
    /\ stageData' = StageDataAfterReport(impl, stageData)
    /\ UNCHANGED <<purging, rendering, storing, sessions, files, client, impl, dayMinute, mode, stage,
                   stageStartTimes, history, clock, turns, response, version,
                   sessionData>>

\* GET /sessions/{id}/report for the session followed.  The express server
\* has a route for it.  In the serverless handlers the get-session test (GET
\* and a path that starts with /sessions/) comes first and answers with the
\* session snapshot.
GetReport == Get(PathOf(SessionId, SegReport))

\* the document an export route of the assisted handler builds from the
\* session: the report text handed to generatePDF, or the document
\* generateDOCX hands to Packer.toBuffer
ExportDocument(kind, sd, now) ==
  IF kind = "pdf" THEN generateComprehensiveReport(sd, now)
  ELSE generateDOCX(sd, now)

\* the path of the export route for a kind of document
ExportPath(kind) ==
  PathOf(SessionId, IF kind = "pdf" THEN SegExportPdf ELSE SegExportDocx)

\* an export route of the assisted handler for the session followed, up to
\* its await (of generatePDF, or of generateDOCX at Packer.toBuffer): the
\* document is built from the session as it is now and handed on
ExportBegins(kind) ==
  /\ impl = "assisted"
  /\ LoopIdle
  /\ Len(rendering) < MaxRendering
  /\ rendering' =
       Append(rendering,
              [kind |-> kind, body |-> ExportDocument(kind, stageData, clock)])
  /\ stageData' = StageDataAfterReport(impl, stageData)
  /\ UNCHANGED <<purging, storing, sessions, files, client, impl, dayMinute, mode, stage,
                 stageStartTimes, history, clock, turns, response, version,
                 sessionData, report>>

\* the sequence without its k-th element
Remove(seq, k) == SubSeq(seq, 1, k - 1) \o SubSeq(seq, k + 1, Len(seq))

\* an export route after the await: the k-th document handed on is
\* rendered and the handler answers with it, as it was built (of is the
\* session as it is now, at the answer); if the rendering failed the catch
\* block answers
ExportAnswer(k, rendered) ==
  /\ LoopIdle
  /\ k \in 1..Len(rendering)
  /\ LET kind == rendering[k].kind
         request == [method |-> "POST", path |-> ExportPath(kind)]
     IN report' =
          IF rendered
          THEN [request |-> request, status |-> 200, kind |-> kind,
                error |-> "", body |-> rendering[k].body,
                of |-> SessionContent]
          ELSE [request |-> request, status |-> 500, kind |-> "error",
                error |-> IF kind = "pdf" THEN "Failed to generate PDF"
                          ELSE "Failed to generate DOCX",
                body |-> EmptyObject, of |-> EmptyObject]
  /\ rendering' = Remove(rendering, k)
  /\ UNCHANGED <<purging, storing, sessions, files, client, impl, dayMinute, mode, stage,
                 stageData, stageStartTimes, history, clock, turns, response,
                 version, sessionData>>

\* POST /sessions: a session is created under a fresh identifier
CreateSession(path) ==
  /\ LoopIdle
  /\ Cardinality(sessions) <= MaxCreated
  /\ LET sessionId == FreshIds[Cardinality(sessions)] IN
       /\ sessions' = sessions \cup {sessionId}
       /\ report' = [request |-> [method |-> "POST", path |-> path],
                     status |-> 200, kind |-> "created", error |-> "",
                     body |-> [sessionId |-> sessionId,
                               stage |-> CONTEXT_DISCOVERY],
                     of |-> EmptyObject]
  /\ UNCHANGED <<purging, rendering, storing, files, client, impl, dayMinute, mode, stage, stageData,
                 stageStartTimes, history, clock, turns, response, version,
                 sessionData>>

\* the answer of validateObjective to a message it rejects
SolutionStatementDetected(path) ==
  [request |-> [method |-> "POST", path |-> path], status |-> 400,
   kind |-> "error", error |-> "Solution statement detected",
   body |-> EmptyObject, of |-> EmptyObject]

\* a request is answered and nothing else happens
Answer(r) ==
  /\ LoopIdle
  /\ report' = r
  /\ UNCHANGED <<purging, rendering, storing, sessions, files, client, impl, dayMinute, mode, stage, stageData,
                 stageStartTimes, history, clock, turns, response, version,
                 sessionData>>

\* variant: the chat route creates the session it does not find
ChatRoute_GetOrCreate(path, t, message) ==
  IF ParamSessionId(path) \notin sessions
  THEN /\ sessions' = sessions \cup {ParamSessionId(path)}
       /\ report' = SessionNotFound("POST", path)
       /\ UNCHANGED <<purging, rendering, storing, files, client, impl, dayMinute, mode, stage, stageData,
                      stageStartTimes, history, clock, turns, response,
                      version, sessionData>>
  ELSE /\ ParamSessionId(path) = SessionId
       /\ ChatStart(t, message)
       /\ UNCHANGED sessions

\* the chat route: the session is looked up, then the turn begins (the
\* turns of the session followed only)
ChatRoute(path, t, message) ==
  IF ParamSessionId(path) \notin sessions
  THEN Answer(SessionNotFound("POST", path))
  ELSE /\ ParamSessionId(path) = SessionId
       /\ ChatStart(t, message)

\* the export routes of the assisted handler: the session is looked up,
\* then the document is built (for the session followed only)
ExportRoute(path, kind) ==
  IF ParamSessionId(path) \notin sessions
  THEN Answer(SessionNotFound("POST", path))
  ELSE /\ path = ExportPath(kind)
       /\ ExportBegins(kind)

\* POST /api/sessions/{id}/export of the express server (createExportRoutes):
\* the session is looked up, then the switch on req.body.format; the bodies
\* of the requests followed carry a message and no format, which is the
\* default case, answered 400 'Invalid export format'
ExpressExportRoute(path) ==
  IF ParamSessionId(path) \notin sessions
  THEN Answer(SessionNotFound("POST", path))
  ELSE Answer([request |-> [method |-> "POST", path |-> path],
               status |-> 400, kind |-> "error",
               error |-> "Invalid export format",
               body |-> EmptyObject, of |-> EmptyObject])

\* a POST request with a message in its body (a file for the upload
\* route), routed and answered.  The express server passes the body through
\* sanitizeInput and the chat route through validateObjective first.
Post(path, msg) ==
  LET route == Route(impl, "POST", path)
      message == IF impl = "server" THEN SanitizeInput(msg) ELSE msg
  IN IF route = "create" THEN CreateSession(path)
     ELSE IF route = "chat"
     THEN IF impl = "server"
             /\ validateObjectiveRejects(ExpressSession, message)
          THEN Answer(SolutionStatementDetected(path))
          ELSE \E t \in Turns : ChatRoute(path, t, message)
     ELSE IF route = "upload" THEN UploadRoute(path)
     ELSE IF route = "exportPdf" THEN ExportRoute(path, "pdf")
     ELSE IF route = "exportDocx" THEN ExportRoute(path, "docx")
     ELSE IF route = "export" THEN ExpressExportRoute(path)
     ELSE Answer(RouteNotFound(impl, "POST", path))

Next ==
  \/ Tick
  \/ \E t \in Turns, msg \in UserMessages : ChatStart(t, msg)
  \/ \E t \in Turns, cause \in CompletionErrors : CompletionFail(t, cause)
  \/ \E t \in Turns, r \in ResponsesOf(impl) : CompletionReturnKeyword(t, r)
  \/ \E t \in Turns, r \in ResponsesOf(impl) : CompletionReturnAssisted(t, r)
  \/ \E t \in Turns, reply \in RepliesOf(mode) : AnalysisReturn(t, reply)
  \/ \E t \in Turns : ChatAnswer(t)

Spec == Init /\ [][Next]_vars

\* ------------------------------------------------ the keyword policy alone
\* a fresh session of a keyword implementation
InitPolicy == \E i \in KeywordImpls : InitImpl(i, "policy")

NextPolicy ==
  \/ Upload
  \/ \E t \in Turns, msg \in UserMessages : ChatStart(t, msg)
  \/ \E t \in Turns, r \in PolicyTexts : CompletionReturnKeyword(t, r)
  \/ \E t \in Turns : ChatAnswer(t)

PolicySpec == InitPolicy /\ [][NextPolicy]_vars

\* ------------------------------------------- chat turns with reports between
InitReport == \E i \in Impls : InitImpl(i, "report")


NextReport ==
  \/ Tick
  \/ Upload
  \/ GetReport
  \/ ExportBegins("pdf")
  \/ \E k \in 1..MaxRendering, rendered \in BOOLEAN :
       ExportAnswer(k, rendered)
  \/ \E t \in Turns, msg \in UserMessages : ChatStart(t, msg)
  \/ \E t \in Turns, r \in ResponsesOf(impl) : CompletionReturnKeyword(t, r)
  \/ \E t \in Turns, r \in ResponsesOf(impl) : CompletionReturnAssisted(t, r)
  \/ \E t \in Turns, reply \in RepliesOf(mode) : AnalysisReturn(t, reply)
  \/ \E t \in Turns : ChatAnswer(t)

\* ------------------------------------------------------ export requests
\* the export requests followed: of each export route, for the session
\* followed and for an identifier that is not in the store
InitExport == \E i \in Impls : InitImpl(i, "export")

NextExport ==
  \/ Tick
  \/ \E id \in {SessionId, UnknownId},
        seg \in {SegExport, SegExportPdf, SegExportDocx},
        msg \in UserMessages : Post(PathOf(id, seg), msg)
  \/ \E k \in 1..MaxRendering, rendered \in BOOLEAN :
       ExportAnswer(k, rendered)
  \/ \E t \in Turns, msg \in UserMessages : ChatStart(t, msg)
  \/ \E t \in Turns, r \in ResponsesOf(impl) : CompletionReturnKeyword(t, r)
  \/ \E t \in Turns, r \in ResponsesOf(impl) : CompletionReturnAssisted(t, r)
  \/ \E t \in Turns, reply \in RepliesOf(mode) : AnalysisReturn(t, reply)
  \/ \E t \in Turns : ChatAnswer(t)

ExportSpec == InitExport /\ [][NextExport]_vars

\* ------------------------------------------------------- the purge task
\* the default of purgeOldFiles(maxAgeHours), and the period of the timer of
\* startSecurityTasks, in minutes
maxAgeHours == 24
MinutesPerHour == 60
PurgeInterval == 60

\* maxAge of purgeOldFiles, in minutes
maxAge == maxAgeHours * MinutesPerHour

\* the directory purgeOldFiles lists
secureDir == "secure"

\* the entries of the secure directory, a file and its metadata file apart
FileKey(file) == <<file.name, file.meta>>
SecureKeys == {FileKey(file) : file \in files[secureDir]}

\* SecurityService.storeFileSecurely up to its first await: the encrypted
\* file is written into the secure directory under a fresh name.  The
\* uniqueId of generateSecureFilePath is 16 random bytes, a name no file has
\* and no pass of purgeOldFiles holds from its listing; names are only told
\* apart, and the new file gets the least number that is free.  At most
\* MaxStored files are kept at a time.
StoreFileSecurely ==
  /\ LoopIdle
  /\ LET kept == {file.name : file \in files.secure} \cup storing
         held == {key[1] : key \in UNION {(purging[k].rest
                                              \cup {purging[k].file}) \ {<<>>} :
                                            k \in 1..Len(purging)}}
         free == (1..(2 * MaxStored)) \ (kept \cup held)
     IN
     \E n \in free :
       /\ Cardinality(kept) < MaxStored
       /\ \A other \in free : n <= other
       /\ files' = [files EXCEPT
                      !.secure = @ \cup {[name |-> n, meta |-> FALSE,
                                          mtime |-> clock]}]
       /\ storing' = storing \cup {n}
  /\ UNCHANGED <<purging, rendering, sessions, client, impl, dayMinute, mode, stage, stageData,
                 stageStartTimes, history, clock, turns, response, version,
                 sessionData, report>>

\* storeFileSecurely after the first await: the metadata file is written
\* next to the encrypted file
StoreMetadata ==
  /\ LoopIdle
  /\ \E n \in storing :
       /\ files' = [files EXCEPT
                      !.secure = @ \cup {[name |-> n, meta |-> TRUE,
                                          mtime |-> clock]}]
       /\ storing' = storing \ {n}
  /\ UNCHANGED <<purging, rendering, sessions, client, impl, dayMinute, mode, stage, stageData,
                 stageStartTimes, history, clock, turns, response, version,
                 sessionData, report>>

\* Clock readings are told apart up to Horizon.  When an hour passes at
\* that reading the origin of the readings is moved on by the hour: every
\* time kept is moved back by it, and the age of a file is followed up to
\* an hour beyond the age at which every pass under way finds it expired.
Horizon == PurgeHours * MinutesPerHour
Shifted(time, shift) ==
  LET oldestKept ==
        Horizon - (PassHours - 1) * MinutesPerHour - maxAge - PurgeInterval
  IN IF shift = 0 THEN time ELSE Max(time - shift, oldestKept)

\* an hour passes and the timer of startSecurityTasks fires: a pass of
\* purgeOldFiles begins (the passes begun earlier are over within PassHours
\* hours)
HourlyPurge ==
  /\ LoopIdle
  /\ \A k \in 1..Len(purging) :
       clock + PurgeInterval - purging[k].now < PassHours * MinutesPerHour
  /\ LET shift == IF clock + PurgeInterval <= Horizon THEN 0
                  ELSE PurgeInterval
         now == clock + PurgeInterval - shift
     IN /\ clock' = now
        /\ files' = [dir \in DOMAIN files |->
                       {[file EXCEPT !.mtime = Shifted(@, shift)] :
                          file \in files[dir]}]
        /\ purging' =
             Append([k \in 1..Len(purging) |->
                       [purging[k] EXCEPT !.now = @ - shift]],
                    Pass(now))
  /\ UNCHANGED <<rendering, storing, sessions, client, impl, dayMinute, mode, stage,
                 stageData, stageStartTimes, history, turns, response,
                 version, sessionData, report>>

\* fs.readdir resolves: the entries of the secure directory are the files
\* to examine (in the order of the listing, which is any order); with no
\* entry the pass is over
ReaddirReturns(k) ==
  /\ LoopIdle
  /\ k \in 1..Len(purging)
  /\ purging[k].pc = "readdir"
  /\ purging' =
       IF SecureKeys = {} THEN Remove(purging, k)
       ELSE [purging EXCEPT ![k].pc = "stat", ![k].rest = SecureKeys]
  /\ UNCHANGED <<rendering, storing, sessions, files, client, impl, dayMinute, mode,
                 stage, stageData, stageStartTimes, history, clock, turns,
                 response, version, sessionData, report>>

\* fs.stat of the next entry settles.  It rejects if the file is gone and
\* the catch block ends the pass; a file older than maxAge at the reading
\* the pass took is unlinked; else the pass goes on to the next entry or
\* is over
StatReturns(k, key) ==
  /\ LoopIdle
  /\ k \in 1..Len(purging)
  /\ purging[k].pc = "stat"
  /\ key \in purging[k].rest
  /\ purging' =
       IF key \notin SecureKeys THEN Remove(purging, k)
       ELSE IF \E file \in files[secureDir] :
                 /\ FileKey(file) = key
                 /\ purging[k].now - file.mtime > maxAge
       THEN [purging EXCEPT ![k].pc = "unlink", ![k].file = key,
                            ![k].rest = @ \ {key}]
       ELSE IF purging[k].rest = {key} THEN Remove(purging, k)
       ELSE [purging EXCEPT ![k].rest = @ \ {key}]
  /\ UNCHANGED <<rendering, storing, sessions, files, client, impl, dayMinute, mode,
                 stage, stageData, stageStartTimes, history, clock, turns,
                 response, version, sessionData, report>>

\* fs.unlink settles: the file is removed (or the call rejects because it
\* is gone, and the catch block ends the pass), and the pass goes on to
\* the next entry or is over
UnlinkReturns(k) ==
  /\ LoopIdle
  /\ k \in 1..Len(purging)
  /\ purging[k].pc = "unlink"
  /\ files' = [files EXCEPT
                 ![secureDir] = {file \in @ :
                                   FileKey(file) # purging[k].file}]
  /\ purging' =
       IF purging[k].file \notin SecureKeys \/ purging[k].rest = {}
       THEN Remove(purging, k)
       ELSE [purging EXCEPT ![k].pc = "stat", ![k].file = <<>>]
  /\ UNCHANGED <<rendering, storing, sessions, client, impl, dayMinute, mode, stage,
                 stageData, stageStartTimes, history, clock, turns, response,
                 version, sessionData, report>>

\* a call of a pass of purgeOldFiles settles
PurgeStep ==
  \E k \in 1..PassHours :
    \/ ReaddirReturns(k)
    \/ \E n \in 1..(2 * MaxStored), meta \in BOOLEAN :
         StatReturns(k, <<n, meta>>)
    \/ UnlinkReturns(k)

\* the express server with its upload route and the purge task
InitPurge == InitImpl("server", "purge")

NextPurge ==
  \/ Upload
  \/ StoreFileSecurely
  \/ StoreMetadata
  \/ HourlyPurge
  \/ PurgeStep

\* the timer keeps firing and the calls of a pass settle
PurgeSpec ==
  InitPurge /\ [][NextPurge]_vars /\ WF_vars(HourlyPurge) /\ WF_vars(PurgeStep)

\* -------------------------------------------------------- the web client
\* sendMessage up to the await of fetch: the chat request is sent
ClientSend(msg) ==
  /\ client.outbox = <<>>
  /\ client.waiting = 0
  /\ \E t \in Turns : t <= TurnLimit /\ turns[t].pc = "idle"
  /\ client' = [client EXCEPT !.outbox = <<msg>>]
  /\ UNCHANGED <<impl, dayMinute, mode, stage, stageData, stageStartTimes, history,
                 clock, turns, response, version, sessionData, report,
                 sessions, files, storing, rendering, purging>>

\* the request of the client reaches the handler of the function: the chat
\* route finds the session and the turn begins
ClientRequestArrives(t) ==
  /\ client.outbox # <<>>
  /\ Route(impl, "POST", PathOf(client.sessionId, SegChat)) = "chat"
  /\ client.sessionId \in sessions
  /\ ChatTurnBegins(t, Head(client.outbox))
  /\ client' = [client EXCEPT !.outbox = <<>>, !.waiting = t]
  /\ UNCHANGED <<sessions, files, report>>

\* sendMessage after the await: the body is parsed, whatever the status,
\* and data.stage is taken from it when it differs from currentStage (the
\* error bodies have the key error only)
ClientReceive ==
  /\ LoopIdle
  /\ client.waiting # 0
  /\ response.turn = client.waiting
  /\ LET data == [stage |-> IF response.status = 200 THEN response.stage
                            ELSE Undefined]
     IN
       client' = [client EXCEPT
                    !.currentStage = IF data.stage # @ THEN data.stage ELSE @,
                    !.waiting = 0]
  /\ UNCHANGED <<purging, rendering, storing, sessions, files, impl, dayMinute, mode, stage, stageData,
                 stageStartTimes, history, clock, turns, response, version,
                 sessionData, report>>

\* the handlers the web client reaches: its requests go to the function
\* simple-api, whose prefix both serverless handlers strip from the path
\* a session created by the web client
InitClient == \E i \in {"simple", "assisted"} : InitImpl(i, "client")

NextClient ==
  \/ \E msg \in UserMessages : ClientSend(msg)
  \/ \E t \in Turns : ClientRequestArrives(t)
  \/ \E t \in Turns, cause \in CompletionErrors : CompletionFail(t, cause)
  \/ \E t \in Turns, r \in ResponsesOf(impl) : CompletionReturnKeyword(t, r)
  \/ \E t \in Turns, r \in ResponsesOf(impl) : CompletionReturnAssisted(t, r)
  \/ \E t \in Turns, reply \in RepliesOf(mode) : AnalysisReturn(t, reply)
  \/ \E t \in Turns : ChatAnswer(t)
  \/ ClientReceive

ClientSpec == InitClient /\ [][NextClient]_vars

\* ---------------------------------------------------- requests by path
\* How requests are routed and begun.  A chat turn of a keyword handler is
\* followed to its end; a turn of the assisted handler stays in flight.
\* the paths requested: of the session followed (its upload path among
\* them), of an identifier that is not in the store, and of the first
\* session created by a request
RoutePaths ==
  {PathSessions, PathOf(FreshIds[1], <<>>), PathOf(SessionId, SegUpload)} \cup
  {PathOf(id, seg) : id \in {SessionId, UnknownId},
                     seg \in {<<>>, SegChat, SegReport}}

InitRoute == \E i \in Impls : InitImpl(i, "route")

NextRoute ==
  \/ \E path \in RoutePaths : Get(path)
  \/ \E path \in RoutePaths, msg \in RouteMessages : Post(path, msg)
  \/ \E t \in Turns, r \in ResponsesOf(impl) : CompletionReturnKeyword(t, r)
  \/ \E t \in Turns : ChatAnswer(t)

RouteSpec == InitRoute /\ [][NextRoute]_vars

ReportSpec == InitReport /\ [][NextReport]_vars

\* ================================================================ claims
\* the successor of a stage in the fixed order
Succ(s) == StageOrder[StageIndex(s) + 1]

\* request t ends its progression policy in this step (the policy returns;
\* the handler of the express server and of the assisted implementation is
\* resumed in a later step)
PolicyRan(t) ==
  \/ /\ impl = "assisted"
     /\ turns[t].pc = "awaitAnalysis"
     /\ turns'[t].pc = "awaitPolicy"
  \/ /\ impl \in KeywordImpls
     /\ turns[t].pc = "awaitCompletion"
     /\ \/ turns'[t].pc = "done"
        \/ turns'[t].pc = "awaitPolicy" /\ ~turns'[t].threw

\* request t is answered in this step, its progression policy having
\* returned
AnsweredAfterPolicy(t) ==
  \/ /\ turns[t].pc = "awaitPolicy"
     /\ ~turns[t].threw
     /\ turns'[t].pc # "awaitPolicy"
  \/ /\ impl = "simple"
     /\ PolicyRan(t)

\* C1: under both policies the stage is always one of the six stages and no
\* step, of sequential or of overlapping requests, moves it to an earlier
\* stage of the fixed order.
C1_StageMonotone ==
  /\ [](stage \in COMPAS_STAGES)
  /\ [][StageIndex(stage') >= StageIndex(stage)]_vars

\* the assisted session has walked the whole order
C1_Witness == impl = "assisted" /\ stage = COMPLETE

\* C2: every step that changes the stage moves it to the immediate
\* successor in the fixed order.
C2_NoSkip ==
  [][stage' # stage =>
       /\ stage # COMPLETE
       /\ stage' = Succ(stage)]_vars

\* a keyword turn whose text carries every trigger has advanced the stage
C2_Witness ==
  /\ impl \in KeywordImpls
  /\ stage = OBJECTIVE_DEFINITION
  /\ response.status = 200
  /\ response.message = RespAllTriggers

\* C3: once the stage is complete no step changes it, and a request whose
\* progression policy runs at complete is answered as a normal turn.
C3_CompleteIsTerminal ==
  [][stage = COMPLETE =>
       /\ stage' = COMPLETE
       /\ \A t \in Turns :
            AnsweredAfterPolicy(t) =>
              /\ response'.turn = t
              /\ response'.status = 200
              /\ response'.stage = COMPLETE]_vars

\* an analysis with shouldProgress = true was applied at complete: its data
\* is in the record of complete and the turn was answered normally
C3_Witness ==
  /\ impl = "assisted"
  /\ stage = COMPLETE
  /\ "rootProblem" \in DOMAIN stageData[COMPLETE]
  /\ response.status = 200
  /\ response.stage = COMPLETE
  /\ response.stageAnalysis.shouldProgress = "true"
  /\ response.stageAnalysis.extractedData = [rootProblem |-> "X"]

\* request t applies its analysis in this step
AnalysisApplied(t) ==
  /\ impl = "assisted"
  /\ turns[t].pc = "awaitAnalysis"
  /\ turns'[t].pc = "awaitPolicy"

\* the value analyzeAndProgressStage returns to request t in the step that
\* applies its analysis
Returned(t) == AnalysisResult(turns'[t].reply)

\* the stageAnalysis values that are a parsed answer of the collaborator
ParsedResults == {AnalysisResult(reply) : reply \in ObjectReplies}

\* the analysis of request t failed: what is returned is no parsed answer
AnalysisFailed(t) ==
  AnalysisApplied(t) /\ Returned(t) \notin ParsedResults

\* request t, whose analysis failed, is answered in this step
AnsweredAfterFailure(t) ==
  /\ impl = "assisted"
  /\ turns[t].pc = "awaitPolicy"
  /\ AnalysisResult(turns[t].reply) \notin ParsedResults
  /\ turns'[t].pc # "awaitPolicy"

\* an analysis of the expected shape: shouldProgress a boolean and
\* extractedData a record of data fields (completed is the engine's flag)
WellFormed(a) ==
  /\ a.shouldProgress \in {"true", "false"}
  /\ a.edPresent
  /\ "completed" \notin DOMAIN a.extractedData

\* C4: a well-formed analysis applied at a non-terminal stage s leaves every
\* field of its extractedData in stageData[s]; the stage is then the
\* successor of s when shouldProgress is true and s when it is false.
C4_MergeThenAdvance ==
  [][\A t \in Turns :
       (/\ AnalysisApplied(t)
        /\ stage # COMPLETE
        /\ WellFormed(Returned(t))) =>
         LET a == Returned(t) IN
         /\ \A f \in DOMAIN a.extractedData :
              /\ f \in DOMAIN stageData'[stage]
              /\ stageData'[stage][f] = a.extractedData[f]
         /\ stage' = IF a.shouldProgress = "true" THEN Succ(stage)
                     ELSE stage]_vars

\* the turn answered last returned {shouldProgress: true, extractedData:
\* {rootProblem: "X"}} in objective_definition
C4_Witness ==
  /\ impl = "assisted"
  /\ stage = METHOD_IDEATION
  /\ response.stage = METHOD_IDEATION
  /\ response.stageAnalysis.shouldProgress = "true"
  /\ response.stageAnalysis.extractedData = [rootProblem |-> "X"]
  /\ stageData[OBJECTIVE_DEFINITION].rootProblem = "X"

\* the entries request t has put into a history
EntriesOf(h, t) == SelectSeq(h, LAMBDA e : e.turn = t)

\* C5: a request whose analysis call fails or returns unparsable text leaves
\* stage and stageData as they were (none of its steps changes them), has
\* its user and its assistant entry in the history, and is answered as a
\* normal turn.
C5_AnalysisFailureIsNoOp ==
  [][impl = "assisted" =>
       \A t \in Turns :
         /\ (turns[t].pc \in {"idle", "awaitCompletion"}
             /\ turns'[t].pc \in {"awaitCompletion", "awaitAnalysis"}
             /\ turns'[t].pc # turns[t].pc)
            => UNCHANGED <<stage, stageData>>
         /\ AnalysisFailed(t) =>
              /\ UNCHANGED <<stage, stageData>>
              /\ Len(EntriesOf(history', t)) = 2
              /\ EntriesOf(history', t)[1].role = "user"
              /\ EntriesOf(history', t)[2].role = "assistant"
         /\ AnsweredAfterFailure(t) =>
              /\ UNCHANGED <<stage, stageData, history>>
              /\ response'.turn = t
              /\ response'.status = 200
              /\ response'.error = ""
              /\ response'.stageAnalysis = AnalysisError
              /\ response'.message = EntriesOf(history', t)[2].content]_vars

\* a request whose analysis failed has been answered
C5_Witness ==
  \E t \in Turns :
    /\ turns[t].pc = "done"
    /\ response.turn = t
    /\ response.status = 200
    /\ response.stageAnalysis = AnalysisError
    /\ stage # CONTEXT_DISCOVERY

\* C6: a request whose completion call fails has put only its user entry
\* into the history, changes nothing of the session in the failing step,
\* and is answered with an error response.
C6_CompletionFailure ==
  /\ [](\A t \in Turns :
          turns[t].pc = "completionFailed" =>
            /\ Len(EntriesOf(history, t)) = 1
            /\ EntriesOf(history, t)[1].role = "user")
  /\ [][\A t \in Turns :
          (turns[t].pc # "completionFailed"
           /\ turns'[t].pc = "completionFailed") =>
            /\ UNCHANGED <<stage, stageData, stageStartTimes, history>>
            /\ response'.turn = t
            /\ response'.status # 200
            /\ response'.error # ""]_vars

\* a request of an advanced session failed in its completion call
C6_Witness ==
  \E t \in Turns :
    /\ turns[t].pc = "completionFailed"
    /\ response.turn = t
    /\ stage # CONTEXT_DISCOVERY

\* an analysis that parsed but is not of the expected shape at stage stg
SchemaViolating(a, stg) ==
  \/ a.shouldProgress \notin {"true", "false"}
  \/ ~a.edPresent
  \/ \E f \in DOMAIN a.extractedData : f \notin DOMAIN InitStageData[stg]

\* C7: an analysis that parses but violates the expected shape changes no
\* field of stageData and does not advance the stage.
C7_MalformedIsNoOp ==
  [][\A t \in Turns :
       (/\ AnalysisApplied(t)
        /\ ~AnalysisFailed(t)
        /\ SchemaViolating(Returned(t), stage)) =>
         UNCHANGED <<stage, stageData>>]_vars

\* C8: no two requests both change the session from analysis prompts that
\* were built before the other's change.
C8_NoLostUpdate ==
  \A t1, t2 \in Turns :
    (t1 # t2 /\ turns[t1].applied > 0 /\ turns[t2].applied > 0) =>
      ~(/\ turns[t1].seen < turns[t2].applied
        /\ turns[t2].seen < turns[t1].applied)

\* C9: a step that changes stageData or stage in the assisted implementation
\* is the analysis step of exactly one request and touches nothing of another
\* request nor the history; when it advances, the extracted data is in the
\* record of the stage left (merged before the advance) and the record of
\* the stage entered is untouched.
C9_MergeAdvanceAtomic ==
  [][(impl = "assisted" /\ (stage' # stage \/ stageData' # stageData)) =>
       \E t \in Turns :
         /\ AnalysisApplied(t)
         /\ \A u \in Turns \ {t} : turns'[u] = turns[u]
         /\ history' = history
         /\ stage' # stage =>
              LET a == Returned(t) IN
              /\ stageData'[stage'] = stageData[stage']
              /\ stageData'[stage].completed
              /\ a.edPresent =>
                   \A f \in (DOMAIN a.extractedData) \ {"completed"} :
                     /\ f \in DOMAIN stageData'[stage]
                     /\ stageData'[stage][f] = a.extractedData[f]]_vars

\* while another request awaits its analysis, a request has merged
\* rootProblem = "X" and advanced
C9_Witness ==
  /\ impl = "assisted"
  /\ response.stageAnalysis.shouldProgress = "true"
  /\ response.stageAnalysis.extractedData = [rootProblem |-> "X"]
  /\ response.stage = OBJECTIVE_DEFINITION
  /\ stage = OBJECTIVE_DEFINITION
  /\ stageData[CONTEXT_DISCOVERY].completed
  /\ "rootProblem" \in DOMAIN stageData[CONTEXT_DISCOVERY]
  /\ \E u \in Turns : turns[u].pc = "awaitAnalysis"

\* C10: in the assisted implementation completed is false for the current
\* stage and for every stage after it.
C10_CompletedOnlyOnAdvance ==
  impl = "assisted" =>
    \A s \in COMPAS_STAGES :
      StageIndex(s) >= StageIndex(stage) => ~stageData[s].completed

\* C11: in the assisted implementation no step turns the completed flag of
\* any stage from true back to false.
C11_CompletedIsStable ==
  [][impl = "assisted" =>
       \A s \in COMPAS_STAGES :
         stageData[s].completed => stageData'[s].completed]_vars

\* C12: in the assisted implementation every stage before the current one
\* is completed, and a step that changes the stage marks the stage left as
\* completed and records the clock reading as the start time of the stage
\* entered.
C12_PriorStagesCompleted ==
  /\ [](impl = "assisted" =>
          \A s \in COMPAS_STAGES :
            StageIndex(s) < StageIndex(stage) => stageData[s].completed)
  /\ [][(impl = "assisted" /\ stage' # stage) =>
          /\ stageData'[stage].completed
          /\ stage' \in DOMAIN stageStartTimes'
          /\ stageStartTimes'[stage'] = clock
          /\ \A s \in DOMAIN stageStartTimes :
               /\ s \in DOMAIN stageStartTimes'
               /\ stageStartTimes'[s] = stageStartTimes[s]]_vars

\* after the clock has advanced, the analysis {shouldProgress: true,
\* extractedData: {completed: false}} has moved the session out of
\* context_discovery
C12_Witness ==
  /\ impl = "assisted"
  /\ stage = OBJECTIVE_DEFINITION
  /\ response.stageAnalysis.shouldProgress = "true"
  /\ response.stageAnalysis.extractedData = [completed |-> FALSE]
  /\ stageData[CONTEXT_DISCOVERY].completed
  /\ stageStartTimes[OBJECTIVE_DEFINITION] = 1

\* the requests answered as a normal turn
Succeeded == {t \in Turns : turns[t].pc = "done"}

\* every request received so far was processed alone and has succeeded
AllSucceededInTurn ==
  /\ mode # "overlap"
  /\ \A t \in Turns : turns[t].pc \in {"idle", "done"}

\* C13: after N requests that all succeeded, processed one after another,
\* the history has 2N entries, user and assistant alternating and the
\* timestamps non-decreasing in history order; no step changes, removes or
\* reorders an entry already in the history.
C13_HistoryShape ==
  /\ [](AllSucceededInTurn =>
          /\ Len(history) = 2 * Cardinality(Succeeded)
          /\ \A i \in 1..Len(history) :
               history[i].role = IF i % 2 = 1 THEN "user" ELSE "assistant"
          /\ \A i, j \in 1..Len(history) :
               i <= j => history[i].timestamp <= history[j].timestamp)
  /\ [][/\ Len(history') >= Len(history)
         /\ SubSeq(history', 1, Len(history)) = history]_vars

\* two requests have succeeded one after the other and the clock advanced
\* between the first answer and the second request
C13_Witness ==
  /\ AllSucceededInTurn
  /\ Cardinality(Succeeded) = 2
  /\ Len(history) = 4
  /\ history[2].timestamp = 0
  /\ history[3].timestamp = 1

\* request t of a keyword implementation runs updateSessionStage in this
\* step, and the call returns
KeywordPolicyRan(t) == impl \in KeywordImpls /\ PolicyRan(t)

\* the assistant text a request has pushed in this step
AssistantText == history'[Len(history')].content

\* the text contains the phrase, letter case ignored
Mentions(text, phrase) == Includes(ToLowerCase(text), phrase)

\* C14: a keyword turn that runs in context_discovery ends in
\* objective_definition if the assistant text contains, in any letter case,
\* "yes, that's right" or "correct", and in context_discovery otherwise.
C14_ContextTrigger ==
  [][\A t \in Turns :
       (KeywordPolicyRan(t) /\ stage = CONTEXT_DISCOVERY) =>
         LET r == AssistantText IN
         /\ stage' = IF Mentions(r, KwYesThatsRight) \/ Mentions(r, KwCorrect)
                     THEN OBJECTIVE_DEFINITION ELSE CONTEXT_DISCOVERY
         /\ r = TextYesThatsRight => stage' = OBJECTIVE_DEFINITION
         /\ r = RespExplore => stage' = CONTEXT_DISCOVERY]_vars

\* the first turn answered "Yes, that's right, this matches my situation."
C14_Witness ==
  /\ impl \in KeywordImpls
  /\ Len(history) = 2
  /\ response.message = TextYesThatsRight
  /\ response.stage = OBJECTIVE_DEFINITION
  /\ stage = OBJECTIVE_DEFINITION

\* C15: a keyword turn that runs in implementation_plan ends in complete if
\* the assistant text contains, in any letter case, both "performance
\* measures" and "learning questions", and in implementation_plan otherwise.
C15_PlanTrigger ==
  [][\A t \in Turns :
       (KeywordPolicyRan(t) /\ stage = IMPLEMENTATION_PLAN) =>
         LET r == AssistantText IN
         /\ stage' = IF Mentions(r, KwPerformanceMeasures)
                        /\ Mentions(r, KwLearningQuestions)
                     THEN COMPLETE ELSE IMPLEMENTATION_PLAN
         /\ r \in {RespMeasuresOnly, TextQuestionsOnly} =>
              stage' = IMPLEMENTATION_PLAN]_vars

\* a turn in implementation_plan was answered with a text that carries only
\* "learning questions"
C15_Witness ==
  /\ impl \in KeywordImpls
  /\ response.message = TextQuestionsOnly
  /\ response.stage = IMPLEMENTATION_PLAN
  /\ stage = IMPLEMENTATION_PLAN

\* C16: a keyword turn that runs in method_ideation ends in method_selection
\* if the assistant text contains "method", in any letter case, and one of
\* "1.", "2.", "3.", and in method_ideation otherwise.
C16_IdeationTrigger ==
  [][\A t \in Turns :
       (KeywordPolicyRan(t) /\ stage = METHOD_IDEATION) =>
         LET r == AssistantText IN
         /\ stage' = IF Mentions(r, KwMethod)
                        /\ (Mentions(r, KwOne) \/ Mentions(r, KwTwo)
                            \/ Mentions(r, KwThree))
                     THEN METHOD_SELECTION ELSE METHOD_IDEATION
         /\ r \in {TextMethodNoMarker, TextMarkerNoMethod} =>
              stage' = METHOD_IDEATION]_vars

\* a turn in method_ideation was answered "Step 2. Train volunteers"
C16_Witness ==
  /\ impl \in KeywordImpls
  /\ response.message = TextMarkerNoMethod
  /\ response.stage = METHOD_IDEATION
  /\ stage = METHOD_IDEATION

\* C17: the step of a keyword turn in which updateSessionStage runs leaves
\* the data fields of the session as they were, and the history holds what
\* it held plus the assistant entry the handler has pushed before the call.
C17_PolicyOnlySetsStage ==
  [][\A t \in Turns :
       KeywordPolicyRan(t) =>
         /\ sessionData' = sessionData
         /\ history' =
              Append(history,
                     [role |-> "assistant", content |-> AssistantText,
                      timestamp |-> clock, turn |-> t])]_vars

\* after an upload a turn of the express server has advanced the session out
\* of objective_definition
C17_Witness ==
  /\ impl = "server"
  /\ files.uploads # {}
  /\ response.status = 200
  /\ response.stage = METHOD_IDEATION
  /\ stage = METHOD_IDEATION

\* C18: a step that answers a get-report request, or that builds the report
\* of an export or answers the export, leaves the stage, the stage data, the
\* data fields of the keyword session, the history and the stage start times
\* as they were.
C18_ReportLeavesSession ==
  [][(report' # report \/ rendering' # rendering) =>
       UNCHANGED <<stage, stageData, stageStartTimes, history,
                   sessionData>>]_vars

\* the express server has reported on a session that has advanced, after
\* an upload
C18_Witness ==
  /\ impl = "server"
  /\ report.kind = "report"
  /\ files.uploads # {}
  /\ stage = OBJECTIVE_DEFINITION
  /\ report.of = SessionContent

\* the answer shows a projection of the session it was given for (an export
\* shows the report built before the renderer ran, which may be a
\* projection of what the session held earlier)
ProjectionOfSession(answer) ==
  answer.kind \in {"pdf", "docx"} =>
    \E now \in 0..MaxClock :
      answer.body = ExportDocument(answer.kind, answer.of.stageData, now)

\* C19: a projection of the same kind as the one before it, taken of a
\* session that holds what it held then, yields the same text.
C19_ReportDeterministic ==
  [][(/\ report.kind # ""
      /\ report'.kind = report.kind
      /\ report'.of = report.of
      /\ ProjectionOfSession(report)
      /\ ProjectionOfSession(report')) =>
       report'.body = report.body]_vars

\* C20: the system prompt built for a request of the assisted handler
\* carries, for the current stage and for every stage before it, the record
\* of that stage as the session holds it.
C20_PromptCarriesPriorStages ==
  [][\A t \in Turns :
       (/\ impl = "assisted"
        /\ turns[t].pc = "idle"
        /\ turns'[t].pc = "awaitCompletion") =>
         LET sections == turns'[t].prompt.sections IN
         \A s \in COMPAS_STAGES :
           StageIndex(s) <= StageIndex(stage) =>
             \E i \in 1..Len(sections) :
               /\ sections[i].of = s
               /\ sections[i].data = stageData[s]]_vars

\* C21: for the existing session, the answer of a serverless handler to
\* GET /sessions/{id}/report carries the report text of that session (it is
\* the answer of the report route, not the session snapshot)
C21_ServerlessReport ==
  (/\ impl # "server"
   /\ report.request = [method |-> "GET",
                        path |-> PathOf(SessionId, SegReport)])
  => (report.status = 200 /\ report.kind = "report")

\* a chat turn begins in this step with a message that is a solution
\* statement: the message is appended to the history and the completion is
\* requested
SolutionTurnBegins ==
  \E t \in Turns :
    /\ turns[t].pc = "idle"
    /\ turns'[t].pc = "awaitCompletion"
    /\ validateObjectiveStatement(turns'[t].message).isSolution
    /\ history' # history

\* C22: on the express server, while the stage is objective_definition, a
\* chat request whose message is a solution statement never reaches the
\* chat handler: no step appends such a message to the history and requests
\* a completion for it
C22_SolutionStatementRejected ==
  [][(impl = "server" /\ stage = OBJECTIVE_DEFINITION)
       => ~SolutionTurnBegins]_vars

\* C23: in the assisted implementation the stages that have a start time
\* are exactly those that have been current, the first stage has the time
\* of session creation, a start time once set is never changed by any step,
\* and a start time is added only for the stage entered by the step, as the
\* clock reading of that step
C23_StartTimesSetOnce ==
  /\ [](impl = "assisted" =>
          /\ DOMAIN stageStartTimes =
               {s \in COMPAS_STAGES : StageIndex(s) <= StageIndex(stage)}
          /\ stageStartTimes[CONTEXT_DISCOVERY] = startTime)
  /\ [][impl = "assisted" =>
          /\ \A s \in DOMAIN stageStartTimes :
               /\ s \in DOMAIN stageStartTimes'
               /\ stageStartTimes'[s] = stageStartTimes[s]
          /\ \A s \in (DOMAIN stageStartTimes') \ (DOMAIN stageStartTimes) :
               /\ stage' # stage
               /\ s = stage'
               /\ stageStartTimes'[s] = clock]_vars

\* the session entered objective_definition, the clock advanced, and a
\* later turn merged its analysis without advancing: the start time of
\* objective_definition is still the earlier clock reading
C23_Witness ==
  /\ impl = "assisted"
  /\ stage = OBJECTIVE_DEFINITION
  /\ turns[2].pc = "done"
  /\ turns[2].applied > 0
  /\ stageStartTimes[OBJECTIVE_DEFINITION] < clock

\* the files of a directory that are older than 24 hours
OlderThanMaxAge(dir) ==
  {file \in files[dir] : clock - file.mtime > maxAge}

\* C24: while the hourly purge task keeps running, a file written by the
\* upload endpoint that is older than 24 hours is eventually deleted: the
\* upload directory does not keep a file older than 24 hours for ever
C24_UploadsEventuallyPurged ==
  \A n \in 1..MaxUploads :
    (\E file \in OlderThanMaxAge("uploads") : file.name = n)
      ~> (\A file \in files.uploads : file.name # n)

\* the get-session, chat and get-report requests that name an identifier
\* which is not in the session store
UnknownRequests ==
  {[method |-> "GET", path |-> PathOf(UnknownId, <<>>)],
   [method |-> "POST", path |-> PathOf(UnknownId, SegChat)],
   [method |-> "GET", path |-> PathOf(UnknownId, SegReport)]}

\* C25: a get-session, chat or get-report request that names an identifier
\* which is not in the store is answered 404 'Session not found', and the
\* step that answers it adds no session to the store, starts no chat turn
\* (no completion is requested) and leaves the existing session as it was
C25_UnknownSession ==
  /\ [](report.request \in UnknownRequests =>
          /\ UnknownId \notin sessions
          /\ report.status = 404
          /\ report.error = "Session not found")
  /\ [][(report'.request \in UnknownRequests /\ report' # report) =>
          /\ sessions' = sessions
          /\ turns' = turns
          /\ UNCHANGED <<stage, stageData, stageStartTimes, history,
                         sessionData, response, version, files>>]_vars

\* the express server answered a chat request for the unknown identifier
\* while the session followed already had a conversation
C25_Witness ==
  /\ impl = "server"
  /\ report.request = [method |-> "POST", path |-> PathOf(UnknownId, SegChat)]
  /\ report.status = 404
  /\ Len(history) >= 2
  /\ sessions = {SessionId}

\* the number of advances the session has made (the stage moves one place
\* at a time from the first stage)
Advances == StageIndex(stage) - StageIndex(CONTEXT_DISCOVERY)

\* C26: the number of stage advances of the session is at most the number
\* of its chat turns whose progression check has run, whether the turns
\* were processed one after another or were in flight together
C26_OneAdvancePerTurn ==
  Advances <= Cardinality({t \in Turns :
                             turns[t].pc \in {"awaitPolicy", "done"}})

\* two overlapping turns of the assisted handler (both user messages came
\* before either assistant message) have each advanced the stage
C26_Witness ==
  /\ impl = "assisted"
  /\ mode = "overlap"
  /\ Len(history) = 4
  /\ history[1].turn = 1
  /\ history[2].turn = 2
  /\ Succeeded = {1, 2}
  /\ Advances = 2

\* C27: in the assisted implementation the step that applies the analysis
\* of a request merges nothing into the record of a stage other than the
\* one named in its analysis request: those records keep their keys and
\* values (the completed flag, which the advance writes, aside)
C27_MergeIntoRequestStage ==
  [][\A t \in Turns :
       AnalysisApplied(t) =>
         \A s \in COMPAS_STAGES \ {turns[t].reqStage} :
           /\ DOMAIN stageData'[s] = DOMAIN stageData[s]
           /\ \A k \in (DOMAIN stageData[s]) \ {"completed"} :
                stageData'[s][k] = stageData[s][k]]_vars

\* the stage a request's advance decision is computed for: the stage whose
\* system prompt was sent with its completion request (keyword policy), the
\* stage named in its analysis request (assisted policy)
ComputedFor(t) ==
  IF impl = "assisted" THEN turns[t].reqStage ELSE turns[t].prompt.phase

\* C28: the keyword policy tests a response against the trigger phrases of
\* the stage whose system prompt produced it, and an advance of the assisted
\* policy leaves the stage named in the analysis request
C28_DecisionForOwnStage ==
  [][\A t \in Turns :
       (/\ PolicyRan(t)
        /\ impl = "assisted" => stage' # stage) =>
         stage = ComputedFor(t)]_vars

\* C29: in the history every assistant entry comes right after the user
\* entry of the same chat turn
C29_AssistantFollowsOwnUser ==
  \A i \in 1..Len(history) :
    history[i].role = "assistant" =>
      /\ i > 1
      /\ history[i - 1].role = "user"
      /\ history[i - 1].turn = history[i].turn

\* C30: the currentStage of the web client is one of the six stages, and
\* when no chat request of the client is under way it is the stage of the
\* session (the stage of the last successful chat response, or of session
\* creation when there was none)
C30_ClientStage ==
  /\ client.currentStage \in COMPAS_STAGES
  /\ (client.outbox = <<>> /\ client.waiting = 0) =>
       client.currentStage = stage


============================================================================
